---- MODULE Spec2Model ----
(***************************************************************************)
(* A model of the TFT data extraction pipeline of                          *)
(* src/data/tft_data_scraper.py: the retrying API client                   *)
(* (RiotAPIClient._make_request), the orchestrator                         *)
(* (TFTDataPipeline.extract_match_data / run_full_pipeline) and the        *)
(* static-set resolver (CDragonClient.find_current_set).                   *)
(***************************************************************************)
EXTENDS Integers, Sequences, FiniteSets, TLC

(***************************************************************************)
(* Bounds of the model.                                                    *)
(***************************************************************************)
\* run_full_pipeline's num_players (default 10), scaled down; the league
\* response holds up to one entry more, so that the truncation happens
num_players == 2
\* run_full_pipeline's matches_per_player (default 20), scaled down: a
\* match-id listing holds at most this many ids
matches_per_player == 2
\* the match ids the API may answer with are 1..NumMatchIds
NumMatchIds == 2
\* the participants of every match record of the pipeline model
participants_per_match == 2
\* the setData array of the catalog holds at most this many candidates
MaxSets == 3
MaxMatches == 2
MaxParticipants == 2
MaxTraits == 3
MaxTier == 2
MaxItems == 2
\* the largest attempt number _exponential_backoff is probed with
MaxAttemptArg == 9
\* the largest Retry-After value probed against the backoff delay
MaxHintArg == 20

(***************************************************************************)
(* RateLimitConfig (defaults; RiotAPIClient always builds the default).    *)
(***************************************************************************)
max_retries == 5
base_delay == 1
max_delay == 120

\* the pacing delays of extract_match_data, in milliseconds: time.sleep(0.5)
\* after a match-detail request, time.sleep(1) after a player
courtesy_delay_ms == 500
player_delay_ms == 1000

Max(a, b) == IF a >= b THEN a ELSE b
Min(a, b) == IF a <= b THEN a ELSE b

VARIABLES
    \* ---- run_full_pipeline / extract_match_data ----
    pc,              \* the statement the pipeline is at
    static_data,     \* "none" | "loaded": the CDragon catalog of the pipeline
    challenger_entries, \* the truncated league entries the loop has yet to
                     \* leave: the current entry first
    idx,             \* the loop's idx: 1-based number of the current entry
    match_ids,       \* the current player's match ids the inner loop has yet
                     \* to leave: the current id first
    all_matches,     \* the records collected by this run
    processed_match_ids, \* the dedup set of this run
    match_data,      \* self.match_data
    df,              \* the rows of the training dataframe
    dataset_written, \* save_training_data has written the CSV
    \* ---- _make_request ----
    attempt,         \* loop index of the attempt to be made next
    hist,            \* one logical request on its own: its iterations so far
    outcome,         \* one logical request on its own: how it ended
    \* ---- observation of the run ----
    failed_at,       \* the step whose exception left run_full_pipeline
    league_result,   \* how the league request ended ("pending" before)
    league_only_429, \* every response to the league request so far was a 429
    requested,       \* the match ids a match-detail request was issued for
    rerequested,     \* those a second match-detail request was issued for
    api_requested,   \* a Riot API request was issued by the run
    returned,        \* the match ids whose match-detail request returned a
                     \* payload
    listed,          \* the match ids received in match-id listings
    extracted,       \* the return of extract_match_data
    last_request,    \* the last request extract_match_data made: its kind,
                     \* the idx of the entry it was made for, its count
    paced,           \* the pacing delays slept since that request returned
    \* ---- the current iteration of the loop over the entries ----
    puuid,           \* the local puuid: "none", or where it came from
                     \* ("entry": the league entry, "lookup": the summoner)
    lookups,         \* the get_summoner_by_id calls made for the entry
    ids_requested,   \* get_match_ids_by_puuid was called for the entry
    \* ---- the parameters of the run and the answers of the services ----
    env,
    \* ---- _exponential_backoff probed as a function ----
    bo,
    \* ---- find_current_set probed as a function ----
    fs,
    \* ---- build_training_dataframe probed as a function ----
    bd,
    \* ---- extract_items probed as a function ----
    it,
    \* ---- save_static_data probed as a function ----
    sn

entryVars == <<puuid, lookups, ids_requested>>
paceVars == <<last_request, paced>>
probeVars == <<bo, fs, bd, it, sn>>
pipeVars == <<pc, static_data, challenger_entries, idx, match_ids,
              all_matches, processed_match_ids, match_data, df, dataset_written,
              attempt, hist, outcome, failed_at, league_result, league_only_429,
              requested, rerequested, api_requested, returned,
              listed, extracted, last_request, paced,
              puuid, lookups, ids_requested, env>>
vars == <<pc, static_data, challenger_entries, idx, match_ids,
          all_matches, processed_match_ids, match_data, df, dataset_written,
          attempt, hist, outcome, failed_at, league_result, league_only_429,
          requested, rerequested, api_requested, returned,
          listed, extracted, last_request, paced,
          puuid, lookups, ids_requested, env, bo, fs, bd, it, sn>>

(***************************************************************************)
(* RiotAPIClient._exponential_backoff                                      *)
(***************************************************************************)
\* (the delay without its cap)
exponential_backoff_uncapped(n) == base_delay * (2 ^ n)

exponential_backoff(n) == Min(base_delay * (2 ^ n), max_delay)

(***************************************************************************)
(* HTTP: what one requests.get of _make_request can come back with.        *)
(* kind "exception" is a transport-level failure (timeout, connection      *)
(* error): requests.get raises a RequestException and there is no status.  *)
(* hint is the Retry-After header: <<>> when absent, <<h>> when present.   *)
(***************************************************************************)
Statuses == {200, 204, 404, 429, 500}
HintHeaders == {<<>>, <<3>>, <<20>>}

TransportFailure == [kind |-> "exception", status |-> 0, hint |-> <<>>]
HttpResponse(s, h) == [kind |-> "response", status |-> s, hint |-> h]

Responses ==
    {TransportFailure}
    \cup {HttpResponse(s, <<>>) : s \in Statuses}
    \cup {HttpResponse(429, h) : h \in HintHeaders}

\* (every status but 200 raising)
raise_for_status_Strict(status) == status # 200

\* requests.Response.raise_for_status: raises HTTPError for 4xx and 5xx
raise_for_status(status) == status >= 400 /\ status < 600

\* int(response.headers.get('Retry-After', 1))
retry_after(hint) == IF hint = <<>> THEN 1 ELSE hint[1]

\* lines 292-293: the delay slept on a 429 at attempt n with header hint
rate_limit_delay(hint, n) == Max(retry_after(hint), exponential_backoff(n))

(***************************************************************************)
(* One iteration of the loop of _make_request, for the response resp at    *)
(* loop index n: what the iteration sleeps and how the loop goes on.       *)
(*   next = "return": return response.json()                               *)
(*          "retry" : continue with attempt n + 1                          *)
(*          "none"  : the loop is over, return None                        *)
(*          "raise" : the exception leaves _make_request                   *)
(* HTTPError is a RequestException: raise_for_status() inside the try is   *)
(* caught by the except clause of the same iteration.                      *)
(***************************************************************************)
\* (range(max_retries + 1))
LoopEnd_OneMore(n) == IF n < max_retries THEN "retry" ELSE "none"

LoopEnd(n) == IF n + 1 < max_retries THEN "retry" ELSE "none"

\* (the except clause sleeping base_delay, not the backoff of the attempt)
make_request_step_FlatDelay(resp, n) ==
    IF resp.kind = "response" /\ resp.status = 200
    THEN [next |-> "return", slept |-> <<>>]
    ELSE IF resp.kind = "response" /\ resp.status = 429
    THEN [next |-> LoopEnd(n),
          slept |-> <<rate_limit_delay(resp.hint, n)>>]
    ELSE IF resp.kind = "exception" \/ raise_for_status(resp.status)
    THEN IF n < max_retries - 1
         THEN [next |-> "retry", slept |-> <<base_delay>>]
         ELSE [next |-> "raise", slept |-> <<>>]
    ELSE [next |-> LoopEnd(n), slept |-> <<>>]

\* (no sleep after the 429 of the last attempt)
make_request_step_NoFinalSleep(resp, n) ==
    IF resp.kind = "response" /\ resp.status = 200
    THEN [next |-> "return", slept |-> <<>>]
    ELSE IF resp.kind = "response" /\ resp.status = 429
    THEN [next |-> LoopEnd(n),
          slept |-> IF n + 1 < max_retries
                    THEN <<rate_limit_delay(resp.hint, n)>> ELSE <<>>]
    ELSE IF resp.kind = "exception" \/ raise_for_status(resp.status)
    THEN IF n < max_retries - 1
         THEN [next |-> "retry", slept |-> <<exponential_backoff(n)>>]
         ELSE [next |-> "raise", slept |-> <<>>]
    ELSE [next |-> LoopEnd(n), slept |-> <<>>]

make_request_step(resp, n) ==
    IF resp.kind = "response" /\ resp.status = 200
    THEN [next |-> "return", slept |-> <<>>]
    ELSE IF resp.kind = "response" /\ resp.status = 429
    THEN [next |-> LoopEnd(n),
          slept |-> <<rate_limit_delay(resp.hint, n)>>]
    ELSE IF resp.kind = "exception" \/ raise_for_status(resp.status)
    THEN IF n < max_retries - 1
         THEN [next |-> "retry", slept |-> <<exponential_backoff(n)>>]
         ELSE [next |-> "raise", slept |-> <<>>]
    ELSE [next |-> LoopEnd(n), slept |-> <<>>]

\* the observation of one attempt
Seen(resp, n) ==
    [resp |-> resp, attempt |-> n,
     next |-> make_request_step(resp, n).next,
     slept |-> make_request_step(resp, n).slept]

Retryable(resp) ==
    resp.kind = "exception" \/ (resp.kind = "response" /\ resp.status = 429)

SeqsUpTo(S, n) == UNION {[1..k -> S] : k \in 0..n}

MatchIds == 1..NumMatchIds

\* a league entry: which of the fields 'puuid' and 'summonerId' it carries
Entries == [puuid : BOOLEAN, summonerId : BOOLEAN]

\* the 'entries' of a league response
LeagueBodies == SeqsUpTo(Entries, num_players + 1)
\* the ids of a match-id listing
Ids(listing) == {listing[i] : i \in 1..Len(listing)}
NoDuplicates(seq) == \A i, j \in 1..Len(seq) : seq[i] = seq[j] => i = j

\* a match-id listing: the API lists a player's matches, each id once
IdBodies == {b \in SeqsUpTo(MatchIds, matches_per_player) : NoDuplicates(b)}

\* a run of the pipeline with num_players players sampled, the services
\* answering as they please
AnyRun ==
    [scripted |-> FALSE, num_players |-> num_players,
     matches_per_player |-> matches_per_player,
     league |-> <<>>, ids |-> <<>>]

\* what the services may answer in the run: anything, or, in a scripted
\* run, success with the league and the match-id lists of the script
Answers == IF env.scripted THEN {HttpResponse(200, <<>>)} ELSE Responses
StaticAnswers == IF env.scripted THEN {TRUE} ELSE BOOLEAN
LeagueAnswers == IF env.scripted THEN {env.league} ELSE LeagueBodies
SummonerAnswers == IF env.scripted THEN {TRUE} ELSE BOOLEAN
IdsAnswers == IF env.scripted THEN {env.ids[idx]} ELSE IdBodies

\* (the whole list kept)
Truncate_All(es, n) == es

\* challenger_entries[:num_players]
Truncate(es, n) == SubSeq(es, 1, Min(n, Len(es)))

\* extract_match_data has not returned; it returned the list matches
NotReturned == [returned |-> FALSE, matches |-> <<>>]
Returned(matches) == [returned |-> TRUE, matches |-> matches]

\* a request of extract_match_data: kind is "league", "summoner", "ids" or
\* "detail", i the idx of the entry it is made for (0: the league), count
\* the 'count' parameter of a match-id listing (0: none)
Request(kind, i, count) == [kind |-> kind, idx |-> i, count |-> count]
NoRequestYet == Request("none", 0, 0)

(***************************************************************************)
(* The state after TFTDataPipeline.__init__, at the call of                *)
(* run_full_pipeline.                                                      *)
(***************************************************************************)
RunInit ==
    /\ pc = "static"
    /\ static_data = "none"
    /\ challenger_entries = <<>>
    /\ idx = 0
    /\ match_ids = <<>>
    /\ all_matches = <<>>
    /\ processed_match_ids = {}
    /\ df = <<>>
    /\ dataset_written = FALSE
    /\ attempt = 0
    /\ hist = <<>>
    /\ outcome = "idle"
    /\ failed_at = "none"
    /\ league_result = "pending"
    /\ league_only_429 = TRUE
    /\ requested = {}
    /\ rerequested = {}
    /\ api_requested = FALSE
    /\ returned = {}
    /\ listed = {}
    /\ extracted = NotReturned
    /\ last_request = NoRequestYet
    /\ paced = {}
    /\ puuid = "none"
    /\ lookups = 0
    /\ ids_requested = FALSE

\* the pipeline object is new: self.match_data = []
PipeInit ==
    /\ RunInit
    /\ match_data = <<>>

\* a wrapper of _make_request is called: a new logical request begins
BeginRequest ==
    /\ attempt' = 0
    /\ api_requested' = TRUE

NoRequest == UNCHANGED <<attempt, api_requested>>

\* one requests.get of the loop of _make_request, answered by resp
Attempt(resp) ==
    /\ attempt' = IF make_request_step(resp, attempt).next = "retry"
                  THEN attempt + 1 ELSE attempt
    /\ UNCHANGED api_requested

Next_(resp) == make_request_step(resp, attempt).next

\* (the failure of the catalog fetch logged and not raised)
ExtractStaticData_Swallowed ==
    /\ pc = "static"
    /\ \E fetched \in BOOLEAN :
         /\ static_data' = (IF fetched THEN "loaded" ELSE "none")
         /\ pc' = "league"
         /\ BeginRequest
         /\ last_request' = Request("league", 0, 0)
         /\ UNCHANGED failed_at
    /\ UNCHANGED <<league_result, league_only_429, challenger_entries, idx,
                   match_ids, all_matches, processed_match_ids, match_data, df,
                   dataset_written, requested, rerequested, hist, outcome,
                   entryVars, returned,
                   listed, extracted, paced,
                   env, probeVars>>

(***************************************************************************)
(* TFTDataPipeline.run_full_pipeline, step 1: extract_static_data.         *)
(* fetch_static_data re-raises a RequestException; nothing catches it      *)
(* before the except clause of run_full_pipeline, which re-raises.         *)
(***************************************************************************)
ExtractStaticData ==
    /\ pc = "static"
    /\ \E fetched \in StaticAnswers :
         IF fetched
         THEN /\ static_data' = "loaded"
              /\ pc' = "league"          \* extract_match_data: get_challenger_league
              /\ BeginRequest
              /\ last_request' = Request("league", 0, 0)
              /\ UNCHANGED failed_at
         ELSE /\ pc' = "raised"
              /\ failed_at' = "static"
              /\ NoRequest
              /\ UNCHANGED <<static_data, last_request>>
    /\ UNCHANGED <<league_result, league_only_429, challenger_entries, idx, match_ids, all_matches,
                   processed_match_ids, match_data, df, dataset_written,
                   requested, rerequested, hist, outcome, entryVars, returned,
                   listed, extracted, paced,
                   env, probeVars>>

\* (the early return storing the empty collection)
LeagueAttempt_Assigns ==
    /\ pc = "league"
    /\ \E resp \in Answers, body \in LeagueAnswers :
         /\ (resp.status # 200 => body = <<>>)
         /\ Attempt(resp)
         /\ league_only_429' = (league_only_429 /\ resp.kind = "response"
                                  /\ resp.status = 429)
         /\ league_result' = (IF Next_(resp) = "retry" THEN "pending"
                               ELSE Next_(resp))
         /\ failed_at' = (IF Next_(resp) = "raise" THEN "league" ELSE failed_at)
         /\ LET nxt == Next_(resp)
                \* get_challenger_league: [] when _make_request gave nothing
                entries == IF nxt = "return" THEN body ELSE <<>>
            IN  IF nxt = "retry"
                THEN UNCHANGED <<pc, challenger_entries, idx, all_matches,
                                 processed_match_ids, extracted>>
                ELSE IF nxt = "raise"
                THEN /\ pc' = "raised"
                     /\ UNCHANGED <<challenger_entries, idx, all_matches,
                                     processed_match_ids, extracted>>
                ELSE IF entries = <<>>
                THEN /\ pc' = "build"     \* return [] after self.match_data = []
                     /\ extracted' = Returned(<<>>)
                     /\ UNCHANGED <<challenger_entries, idx, all_matches,
                                     processed_match_ids>>
                ELSE /\ challenger_entries' = Truncate(entries, env.num_players)
                     /\ idx' = 1
                     /\ all_matches' = <<>>
                     /\ processed_match_ids' = {}
                     /\ UNCHANGED extracted
                     /\ pc' = "entry"
    /\ match_data' = (IF pc' = "build" THEN <<>> ELSE match_data)
    /\ UNCHANGED <<static_data, match_ids, df,
                   dataset_written, requested, rerequested, hist, outcome, entryVars, returned,
                   listed, paceVars,
                   env, probeVars>>

(***************************************************************************)
(* extract_match_data, lines 411-422: one attempt of the league request    *)
(* and, when the request is over, the statements up to the loop.           *)
(***************************************************************************)
LeagueAttempt ==
    /\ pc = "league"
    /\ \E resp \in Answers, body \in LeagueAnswers :
         /\ (resp.status # 200 => body = <<>>)
         /\ Attempt(resp)
         /\ league_only_429' = (league_only_429 /\ resp.kind = "response"
                                  /\ resp.status = 429)
         /\ league_result' = (IF Next_(resp) = "retry" THEN "pending"
                               ELSE Next_(resp))
         /\ failed_at' = (IF Next_(resp) = "raise" THEN "league" ELSE failed_at)
         /\ LET nxt == Next_(resp)
                \* get_challenger_league: [] when _make_request gave nothing
                entries == IF nxt = "return" THEN body ELSE <<>>
            IN  IF nxt = "retry"
                THEN UNCHANGED <<pc, challenger_entries, idx, all_matches,
                                 processed_match_ids, extracted>>
                ELSE IF nxt = "raise"
                THEN /\ pc' = "raised"
                     /\ UNCHANGED <<challenger_entries, idx, all_matches,
                                     processed_match_ids, extracted>>
                ELSE IF entries = <<>>
                THEN /\ pc' = "build"     \* return []: self.match_data is not assigned
                     /\ extracted' = Returned(<<>>)
                     /\ UNCHANGED <<challenger_entries, idx, all_matches,
                                     processed_match_ids>>
                ELSE /\ challenger_entries' = Truncate(entries, env.num_players)
                     /\ idx' = 1
                     /\ all_matches' = <<>>
                     /\ processed_match_ids' = {}
                     /\ UNCHANGED extracted
                     /\ pc' = "entry"
    /\ UNCHANGED <<static_data, match_ids, match_data, df,
                   dataset_written, requested, rerequested, hist, outcome, entryVars, returned,
                   listed, paceVars,
                   env, probeVars>>

\* the for loop over challenger_entries takes its next element
NextEntry ==
    /\ challenger_entries' = Tail(challenger_entries)
    /\ idx' = idx + 1

(***************************************************************************)
(* extract_match_data, lines 424-443: the head of the loop over the        *)
(* entries; a player reference is taken from the entry, or looked up.      *)
\* (the legacy lookup made for every entry that carries a summonerId)
BeginEntry_LegacyFirst ==
    /\ pc = "entry"
    /\ challenger_entries # <<>>
    /\ ids_requested' = FALSE
    /\ LET entry == Head(challenger_entries)
       IN  IF entry.puuid /\ ~entry.summonerId
           THEN /\ pc' = "player"
                /\ puuid' = "entry"
                /\ lookups' = 0
                /\ NoRequest
                /\ UNCHANGED paceVars
                /\ UNCHANGED <<idx, challenger_entries>>
           ELSE IF entry.summonerId
           THEN /\ pc' = "summoner"       \* get_summoner_by_id
                /\ puuid' = "none"
                /\ lookups' = 1
                /\ BeginRequest
                /\ last_request' = Request("summoner", idx, 0)
                /\ paced' = {}
                /\ UNCHANGED <<idx, challenger_entries>>
           ELSE /\ NextEntry              \* skipping entry: continue
                /\ puuid' = "none"
                /\ lookups' = 0
                /\ NoRequest
                /\ UNCHANGED paceVars
                /\ UNCHANGED pc
    /\ UNCHANGED <<failed_at, league_result, league_only_429, static_data, match_ids,
                   all_matches, processed_match_ids, match_data, df,
                   dataset_written, requested, rerequested, hist, outcome, returned,
                   listed, extracted,
                   env, probeVars>>

(***************************************************************************)
BeginEntry ==
    /\ pc = "entry"
    /\ challenger_entries # <<>>
    /\ ids_requested' = FALSE
    /\ LET entry == Head(challenger_entries)
       IN  IF entry.puuid
           THEN /\ pc' = "player"
                /\ puuid' = "entry"
                /\ lookups' = 0
                /\ NoRequest
                /\ UNCHANGED paceVars
                /\ UNCHANGED <<idx, challenger_entries>>
           ELSE IF entry.summonerId
           THEN /\ pc' = "summoner"       \* get_summoner_by_id
                /\ puuid' = "none"
                /\ lookups' = 1
                /\ BeginRequest
                /\ last_request' = Request("summoner", idx, 0)
                /\ paced' = {}
                /\ UNCHANGED <<idx, challenger_entries>>
           ELSE /\ NextEntry              \* skipping entry: continue
                /\ puuid' = "none"
                /\ lookups' = 0
                /\ NoRequest
                /\ UNCHANGED paceVars
                /\ UNCHANGED pc
    /\ UNCHANGED <<failed_at, league_result, league_only_429, static_data, match_ids,
                   all_matches, processed_match_ids, match_data, df,
                   dataset_written, requested, rerequested, hist, outcome, returned,
                   listed, extracted,
                   env, probeVars>>

\* (the player processed whatever the lookup gave)
SummonerAttempt_NoCheck ==
    /\ pc = "summoner"
    /\ \E resp \in Answers, has_puuid \in SummonerAnswers :
         /\ (resp.status # 200 => ~has_puuid)
         /\ Attempt(resp)
         /\ LET nxt == Next_(resp)
            IN  IF nxt = "retry"
                THEN UNCHANGED <<pc, idx, challenger_entries, puuid>>
                ELSE IF nxt = "return"
                THEN /\ pc' = "player"
                     /\ puuid' = (IF has_puuid THEN "lookup" ELSE "none")
                     /\ UNCHANGED <<idx, challenger_entries>>
                ELSE /\ pc' = "entry"     \* no puuid (None, no field, or raised): continue
                     /\ NextEntry
                     /\ UNCHANGED puuid
    /\ UNCHANGED <<failed_at, league_result, league_only_429, static_data, match_ids,
                   all_matches, processed_match_ids, match_data, df,
                   dataset_written, requested, rerequested, hist, outcome, lookups, ids_requested, returned,
                   listed, extracted, paceVars,
                   env, probeVars>>

\* lines 432-441: one attempt of the legacy player lookup
SummonerAttempt ==
    /\ pc = "summoner"
    /\ \E resp \in Answers, has_puuid \in SummonerAnswers :
         /\ (resp.status # 200 => ~has_puuid)
         /\ Attempt(resp)
         /\ LET nxt == Next_(resp)
            IN  IF nxt = "retry"
                THEN UNCHANGED <<pc, idx, challenger_entries, puuid>>
                ELSE IF nxt = "return" /\ has_puuid
                THEN /\ pc' = "player"
                     /\ puuid' = "lookup"  \* summoner.get('puuid')
                     /\ UNCHANGED <<idx, challenger_entries>>
                ELSE /\ pc' = "entry"     \* no puuid (None, no field, or raised): continue
                     /\ NextEntry
                     /\ UNCHANGED puuid
    /\ UNCHANGED <<failed_at, league_result, league_only_429, static_data, match_ids,
                   all_matches, processed_match_ids, match_data, df,
                   dataset_written, requested, rerequested, hist, outcome, lookups, ids_requested, returned,
                   listed, extracted, paceVars,
                   env, probeVars>>

\* line 447: get_match_ids_by_puuid is called
ProcessPlayer ==
    /\ pc = "player"
    /\ pc' = "ids"
    /\ ids_requested' = TRUE
    /\ last_request' = Request("ids", idx, env.matches_per_player)
    /\ paced' = {}
    /\ BeginRequest
    /\ UNCHANGED <<failed_at, league_result, league_only_429, static_data, challenger_entries, idx, match_ids,
                   all_matches, processed_match_ids, match_data, df,
                   dataset_written, requested, rerequested, hist, outcome, puuid, lookups, returned,
                   listed, extracted,
                   env, probeVars>>

\* lines 446-451: one attempt of the match-id listing
IdsAttempt ==
    /\ pc = "ids"
    /\ \E resp \in Answers, body \in IdsAnswers :
         /\ (resp.status # 200 => body = <<>>)
         /\ Attempt(resp)
         /\ listed' = (IF Next_(resp) = "return" THEN listed \cup Ids(body)
                        ELSE listed)
         /\ LET nxt == Next_(resp)
            IN  IF nxt = "retry"
                THEN UNCHANGED <<pc, idx, challenger_entries, match_ids>>
                ELSE IF nxt = "raise"
                THEN /\ pc' = "entry"     \* except Exception: continue
                     /\ NextEntry
                     /\ UNCHANGED match_ids
                ELSE /\ match_ids' = (IF nxt = "return" THEN body ELSE <<>>)
                     /\ pc' = "match"
                     /\ UNCHANGED <<idx, challenger_entries>>
    /\ UNCHANGED <<failed_at, league_result, league_only_429, static_data, all_matches,
                   processed_match_ids, match_data, df, dataset_written,
                   requested, rerequested, hist, outcome, entryVars, returned,
                   extracted, paceVars,
                   env, probeVars>>

\* (the loop over the match ids without its test of processed_match_ids)
NextMatch_NoDedup ==
    /\ pc = "match"
    /\ IF match_ids = <<>>
       THEN /\ pc' = "entry"
            /\ NextEntry
            /\ NoRequest
            /\ paced' = paced \cup {player_delay_ms}   \* time.sleep(1)
            /\ UNCHANGED last_request
            /\ UNCHANGED <<match_ids, requested, rerequested>>
       ELSE /\ pc' = "detail"
            /\ BeginRequest
            /\ last_request' = Request("detail", idx, 0)
            /\ paced' = {}
            /\ requested' = requested \cup {Head(match_ids)}
            /\ rerequested' = rerequested \cup ({Head(match_ids)} \cap requested)
            /\ UNCHANGED <<idx, challenger_entries, match_ids>>
    /\ UNCHANGED <<failed_at, league_result, league_only_429, static_data,
                   all_matches, processed_match_ids, match_data, df,
                   dataset_written, hist, outcome, entryVars, returned,
                   listed, extracted,
                   env, probeVars>>

\* lines 454-458 and 467-468: the head of the loop over the match ids
NextMatch ==
    /\ pc = "match"
    /\ IF match_ids = <<>>
       THEN /\ pc' = "entry"              \* the loop is over: next player
            /\ NextEntry
            /\ NoRequest
            /\ paced' = paced \cup {player_delay_ms}   \* time.sleep(1)
            /\ UNCHANGED last_request
            /\ UNCHANGED <<match_ids, requested, rerequested>>
       ELSE IF Head(match_ids) \in processed_match_ids
       THEN /\ match_ids' = Tail(match_ids)   \* seen: continue
            /\ NoRequest
            /\ UNCHANGED paceVars
            /\ UNCHANGED <<pc, idx, challenger_entries, requested, rerequested>>
       ELSE /\ pc' = "detail"             \* get_match_details(match_id)
            /\ BeginRequest
            /\ last_request' = Request("detail", idx, 0)
            /\ paced' = {}
            /\ requested' = requested \cup {Head(match_ids)}
            /\ rerequested' = rerequested \cup ({Head(match_ids)} \cap requested)
            /\ UNCHANGED <<idx, challenger_entries, match_ids>>
    /\ UNCHANGED <<failed_at, league_result, league_only_429, static_data, all_matches,
                   processed_match_ids, match_data, df, dataset_written, hist, outcome, entryVars, returned,
                   listed, extracted,
                   env, probeVars>>

\* (the id marked as processed whatever the request returned)
DetailAttempt_MarkAlways ==
    /\ pc = "detail"
    /\ \E resp \in Answers :
         /\ Attempt(resp)
         /\ failed_at' = (IF Next_(resp) = "raise" THEN "detail" ELSE failed_at)
         /\ LET nxt == Next_(resp)
                match_id == Head(match_ids)
            IN  IF nxt = "retry"
                THEN UNCHANGED <<pc, match_ids, all_matches, processed_match_ids,
                                 returned, paced>>
                ELSE IF nxt = "raise"
                THEN /\ pc' = "raised"
                     /\ UNCHANGED <<match_ids, all_matches, processed_match_ids,
                                     returned, paced>>
                ELSE IF nxt = "return"
                THEN /\ all_matches' = Append(all_matches, match_id)
                     /\ processed_match_ids' = processed_match_ids \cup {match_id}
                     /\ returned' = returned \cup {match_id}
                     /\ match_ids' = Tail(match_ids)
                     /\ pc' = "match"
                     /\ paced' = {courtesy_delay_ms}   \* time.sleep(0.5)
                ELSE /\ match_ids' = Tail(match_ids)
                     /\ processed_match_ids' = processed_match_ids \cup {match_id}
                     /\ pc' = "match"
                     /\ paced' = {courtesy_delay_ms}   \* time.sleep(0.5)
                     /\ UNCHANGED <<all_matches, returned>>
    /\ UNCHANGED <<league_result, league_only_429, static_data, challenger_entries, idx, match_data,
                   df, dataset_written, requested, rerequested, hist, outcome, entryVars,
                   listed, extracted, last_request,
                   env, probeVars>>

\* lines 458-465: one attempt of the match-detail request; it is in no try.
\* A 200 carries the match record; match_details is falsy when
\* _make_request returned None.
DetailAttempt ==
    /\ pc = "detail"
    /\ \E resp \in Answers :
         /\ Attempt(resp)
         /\ failed_at' = (IF Next_(resp) = "raise" THEN "detail" ELSE failed_at)
         /\ LET nxt == Next_(resp)
                match_id == Head(match_ids)
            IN  IF nxt = "retry"
                THEN UNCHANGED <<pc, match_ids, all_matches, processed_match_ids,
                                 returned, paced>>
                ELSE IF nxt = "raise"
                THEN /\ pc' = "raised"
                     /\ UNCHANGED <<match_ids, all_matches, processed_match_ids,
                                     returned, paced>>
                ELSE IF nxt = "return"
                THEN /\ all_matches' = Append(all_matches, match_id)
                     /\ processed_match_ids' = processed_match_ids \cup {match_id}
                     /\ returned' = returned \cup {match_id}
                     /\ match_ids' = Tail(match_ids)
                     /\ pc' = "match"
                     /\ paced' = {courtesy_delay_ms}   \* time.sleep(0.5)
                ELSE /\ match_ids' = Tail(match_ids)  \* nothing fetched: the id stays unprocessed
                     /\ pc' = "match"
                     /\ paced' = {courtesy_delay_ms}   \* time.sleep(0.5)
                     /\ UNCHANGED <<all_matches, processed_match_ids, returned>>
    /\ UNCHANGED <<league_result, league_only_429, static_data, challenger_entries, idx, match_data,
                   df, dataset_written, requested, rerequested, hist, outcome, entryVars,
                   listed, extracted, last_request,
                   env, probeVars>>

\* (the collected records not stored in self.match_data)
EndExtract_Unassigned ==
    /\ pc = "entry"
    /\ challenger_entries = <<>>
    /\ UNCHANGED match_data
    /\ pc' = "build"
    /\ extracted' = Returned(all_matches)
    /\ last_request' = NoRequestYet       \* the requests of the call are over
    /\ paced' = {}
    /\ puuid' = "none"                    \* the locals of extract_match_data
    /\ lookups' = 0
    /\ ids_requested' = FALSE
    /\ NoRequest
    /\ UNCHANGED <<failed_at, league_result, league_only_429, static_data, challenger_entries, idx, match_ids,
                   all_matches, processed_match_ids, df, dataset_written,
                   requested, rerequested, hist, outcome, returned,
                   listed,
                   env, probeVars>>

\* lines 470-472: the loop over the entries is over
EndExtract ==
    /\ pc = "entry"
    /\ challenger_entries = <<>>
    /\ match_data' = all_matches
    /\ pc' = "build"
    /\ extracted' = Returned(all_matches)
    /\ last_request' = NoRequestYet       \* the requests of the call are over
    /\ paced' = {}
    /\ puuid' = "none"                    \* the locals of extract_match_data
    /\ lookups' = 0
    /\ ids_requested' = FALSE
    /\ NoRequest
    /\ UNCHANGED <<failed_at, league_result, league_only_429, static_data, challenger_entries, idx, match_ids,
                   all_matches, processed_match_ids, df, dataset_written,
                   requested, rerequested, hist, outcome, returned,
                   listed,
                   env, probeVars>>

(***************************************************************************)
(* build_training_dataframe, lines 474-539.  A match record is its          *)
(* metadata.match_id and its info.participants ([] when 'info' or           *)
(* 'participants' is missing); a participant is its 'traits'; a trait has    *)
(* 'name', 'num_units', 'style' and, present or not, 'tier_current'.         *)
(***************************************************************************)
Trait(name, tier) ==
    [name |-> name, tier_current |-> tier, num_units |-> 1, style |-> 0]

\* trait.get('tier_current', 0): <<>> is the missing field
tier_current(trait) ==
    IF trait.tier_current = <<>> THEN 0 ELSE trait.tier_current[1]

\* (the filter letting the traits of tier 0 through)
kept_trait_NonNegative(trait) == tier_current(trait) >= 0

\* line 516: if trait.get('tier_current', 0) > 0
kept_trait(trait) == tier_current(trait) > 0

\* lines 509-517: the list json.dumps encodes in the column 'traits'
RECURSIVE traits_cell(_)
traits_cell(traits) ==
    IF traits = <<>> THEN <<>>
    ELSE (IF kept_trait(Head(traits))
          THEN <<[name |-> Head(traits).name,
                  tier_current |-> Head(traits).tier_current,
                  num_units |-> Head(traits).num_units]>>
          ELSE <<>>) \o traits_cell(Tail(traits))

\* lines 493-533: the row of one participant (the columns copied from the
\* participant left out)
participant_row(match_id, participant) ==
    [match_id |-> match_id, traits |-> traits_cell(participant.traits)]

\* lines 486-533: the rows of one match
match_rows(match) ==
    [p \in 1..Len(match.participants) |->
        participant_row(match.match_id, match.participants[p])]

\* (the matches whose match_id was met before left out)
RECURSIVE build_training_dataframe_SkipSeen(_)
build_training_dataframe_SkipSeen(matches) ==
    IF matches = <<>> THEN <<>>
    ELSE LET front == SubSeq(matches, 1, Len(matches) - 1)
             last == matches[Len(matches)]
         IN  build_training_dataframe_SkipSeen(front) \o
             (IF \E i \in 1..Len(front) : front[i].match_id = last.match_id
              THEN <<>> ELSE match_rows(last))

\* lines 480-539: the rows of the dataframe, none for no match
RECURSIVE build_training_dataframe(_)
build_training_dataframe(matches) ==
    IF matches = <<>> THEN <<>>
    ELSE match_rows(Head(matches)) \o build_training_dataframe(Tail(matches))

\* the record the match-detail request returns for a match id: it has
\* participants_per_match participants, with traits of every sort
match_details(match_id) ==
    [match_id |-> match_id,
     participants |->
        [p \in 1..participants_per_match |->
            [traits |-> <<Trait("a", <<0>>),
                          Trait("b", <<(match_id + p) % (MaxTier + 1)>>),
                          Trait("c", <<>>),
                          Trait("d", <<MaxTier>>)>>]]]

\* the records of self.match_data, which the model holds by their ids
MatchDetails(ids) == [i \in 1..Len(ids) |-> match_details(ids[i])]

\* run_full_pipeline, step 3
BuildTrainingDataframe ==
    /\ pc = "build"
    /\ df' = build_training_dataframe(MatchDetails(match_data))
    /\ pc' = "save"
    /\ NoRequest
    /\ UNCHANGED <<failed_at, league_result, league_only_429, static_data, challenger_entries, idx, match_ids,
                   all_matches, processed_match_ids, match_data,
                   dataset_written, requested, rerequested, hist, outcome, entryVars, returned,
                   listed, extracted, paceVars,
                   env, probeVars>>

\* run_full_pipeline, step 4 and the "completed successfully" return
SaveTrainingData ==
    /\ pc = "save"
    /\ dataset_written' = TRUE
    /\ pc' = "done"
    /\ NoRequest
    /\ UNCHANGED <<failed_at, league_result, league_only_429, static_data, challenger_entries, idx, match_ids,
                   all_matches, processed_match_ids, match_data, df,
                   requested, rerequested, hist, outcome, entryVars, returned,
                   listed, extracted, paceVars,
                   env, probeVars>>

Init ==
    /\ PipeInit
    /\ env = AnyRun
    /\ sn = <<>>
    /\ bo = <<>>
    /\ fs = <<>>
    /\ bd = <<>>
    /\ it = <<>>

Next ==
    \/ ExtractStaticData
    \/ LeagueAttempt
    \/ BeginEntry
    \/ SummonerAttempt
    \/ ProcessPlayer
    \/ IdsAttempt
    \/ NextMatch
    \/ DetailAttempt
    \/ EndExtract
    \/ BuildTrainingDataframe
    \/ SaveTrainingData

Spec == Init /\ [][Next]_vars

(***************************************************************************)
(* A run of run_full_pipeline(num_players=3, matches_per_player=2) in      *)
(* which every request succeeds: the league has three entries, each with   *)
(* a puuid or a summonerId whose lookup gives one; each player has two     *)
(* match ids, one of them common to the first and the second player, the   *)
(* third player's ids being met nowhere else.                              *)
(***************************************************************************)
E2EEntries == {e \in Entries : e.puuid \/ e.summonerId}
E2EMatchIds == 1..5
TwoIds == {<<a, b>> : a, b \in E2EMatchIds} \ {<<a, a>> : a \in E2EMatchIds}

\* (the ids of the first and of the third player taken in increasing order:
\* the other orders are the same runs with the ids renamed)
E2EIds ==
    {l \in [1..3 -> TwoIds] :
        /\ Cardinality(Ids(l[1]) \cap Ids(l[2])) = 1
        /\ Ids(l[3]) \cap (Ids(l[1]) \cup Ids(l[2])) = {}
        /\ l[1][1] < l[1][2]
        /\ l[3][1] < l[3][2]}

E2ERuns ==
    {[scripted |-> TRUE, num_players |-> 3, matches_per_player |-> 2,
      league |-> league, ids |-> l] :
        league \in [1..3 -> E2EEntries], l \in E2EIds}

E2EInit ==
    /\ PipeInit
    /\ env \in E2ERuns
    /\ sn = <<>>
    /\ bo = <<>>
    /\ fs = <<>>
    /\ bd = <<>>
    /\ it = <<>>

SpecE2E == E2EInit /\ [][Next]_vars

(***************************************************************************)
(* extract_match_data is called again on a pipeline whose match_data holds *)
(* the records of an earlier call.                                         *)
(***************************************************************************)
EarlierMatchData == {<<1>>, <<2, 1>>}

RerunInit ==
    /\ RunInit
    /\ match_data \in EarlierMatchData
    /\ env = AnyRun
    /\ sn = <<>>
    /\ bo = <<>>
    /\ fs = <<>>
    /\ bd = <<>>
    /\ it = <<>>

SpecRerun == RerunInit /\ [][Next]_vars

(***************************************************************************)
(* Runs of extract_match_data(num_players, matches_per_player) in which    *)
(* every request succeeds: the league response has any number of entries   *)
(* up to one more than the largest sample, and the player of the i-th      *)
(* entry of the response has the one match i.                              *)
(***************************************************************************)
SampleRuns ==
    {[scripted |-> TRUE, num_players |-> n, matches_per_player |-> m,
      league |-> league, ids |-> [i \in 1..Len(league) |-> <<i>>]] :
        n \in 0..num_players, m \in 1..matches_per_player,
        league \in LeagueBodies}

SampleInit ==
    /\ PipeInit
    /\ env \in SampleRuns
    /\ sn = <<>>
    /\ bo = <<>>
    /\ fs = <<>>
    /\ bd = <<>>
    /\ it = <<>>

SpecSample == SampleInit /\ [][Next]_vars

(***************************************************************************)
(* build_training_dataframe on its own: self.match_data is given, the      *)
(* dataframe is built from it.                                             *)
(***************************************************************************)
TraitNames == {"a", "b"}
Tiers == {<<>>} \cup {<<t>> : t \in 0..MaxTier}
Traits == {Trait(name, tier) : name \in TraitNames, tier \in Tiers}

\* matches of every shape, their participants with one trait, kept or not
ShapeParticipants == {[traits |-> <<Trait("a", <<t>>)>>] : t \in {0, MaxTier}}
ShapeMatches ==
    [match_id : MatchIds,
     participants : SeqsUpTo(ShapeParticipants, MaxParticipants)]

\* one match of one participant, with traits of every sort
TraitMatches ==
    [match_id : MatchIds,
     participants : {<<[traits |-> ts]>> : ts \in SeqsUpTo(Traits, MaxTraits)}]

MatchData ==
    SeqsUpTo(ShapeMatches, MaxMatches) \cup {<<m>> : m \in TraitMatches}

BuildInit ==
    /\ PipeInit
    /\ env = AnyRun
    /\ sn = <<>>
    /\ bo = <<>>
    /\ fs = <<>>
    /\ it = <<>>
    /\ \E matches \in MatchData :
         bd = [match_data |-> matches, built |-> FALSE, df |-> <<>>]

\* (the matches taken out of self.match_data as they are turned into rows)
BuildProbe_Draining ==
    /\ ~bd.built
    /\ bd' = [bd EXCEPT !.built = TRUE,
                        !.df = build_training_dataframe(bd.match_data),
                        !.match_data = <<>>]
    /\ UNCHANGED <<pipeVars, bo, fs, it, sn>>

BuildProbe ==
    /\ ~bd.built
    /\ bd' = [bd EXCEPT !.built = TRUE,
                        !.df = build_training_dataframe(bd.match_data)]
    /\ UNCHANGED <<pipeVars, bo, fs, it, sn>>

SpecBuild == BuildInit /\ [][BuildProbe]_vars

(***************************************************************************)
(* One logical request on its own: RiotAPIClient._make_request called by   *)
(* any of its wrappers, every iteration of its loop observed in hist.      *)
(***************************************************************************)
RequestInit ==
    /\ PipeInit
    /\ env = AnyRun
    /\ sn = <<>>
    /\ bo = <<>>
    /\ fs = <<>>
    /\ bd = <<>>
    /\ it = <<>>

\* a wrapper calls _make_request
CallMakeRequest ==
    /\ pc = "static"
    /\ pc' = "request"
    /\ outcome' = "running"
    /\ UNCHANGED <<static_data, challenger_entries, idx, match_ids,
                   all_matches, processed_match_ids, match_data, df,
                   dataset_written, attempt, hist, failed_at, league_result,
                   league_only_429, requested, rerequested, api_requested,
                   entryVars, returned,
                   listed, extracted, paceVars,
                   env, probeVars>>

\* lines 282-318: one iteration of the loop
MakeRequestIteration ==
    /\ pc = "request"
    /\ outcome = "running"
    /\ \E resp \in Responses :
         /\ hist' = Append(hist, Seen(resp, attempt))
         /\ Attempt(resp)
         /\ outcome' = (IF Next_(resp) = "retry" THEN "running" ELSE Next_(resp))
    /\ UNCHANGED <<pc, static_data, challenger_entries, idx, match_ids,
                   all_matches, processed_match_ids, match_data, df,
                   dataset_written, failed_at, league_result, league_only_429,
                   requested, rerequested, entryVars, returned,
                   listed, extracted, paceVars,
                   env, probeVars>>

RequestNext ==
    \/ CallMakeRequest
    \/ MakeRequestIteration

SpecRequest == RequestInit /\ [][RequestNext]_vars

(***************************************************************************)
(* _exponential_backoff on its own, probed with attempt numbers beyond     *)
(* those the loop reaches, and the delay the 429 branch derives from it.   *)
(***************************************************************************)
HintArgs == {<<>>} \cup {<<h>> : h \in 0..MaxHintArg} \cup {<<max_delay + 1>>}

Probe(n, hint) ==
    [n |-> n,
     delay |-> exponential_backoff(n),
     next_delay |-> exponential_backoff(n + 1),
     hint |-> hint,
     sleep |-> rate_limit_delay(hint, n)]

BackoffInit ==
    /\ PipeInit
    /\ env = AnyRun
    /\ sn = <<>>
    /\ bo = Probe(0, <<>>)
    /\ fs = <<>>
    /\ bd = <<>>
    /\ it = <<>>

BackoffProbe ==
    /\ \E n \in 0..MaxAttemptArg, hint \in HintArgs : bo' = Probe(n, hint)
    /\ UNCHANGED <<pipeVars, fs, bd, it, sn>>

SpecBackoff == BackoffInit /\ [][BackoffProbe]_vars

(***************************************************************************)
(* Claims about extract_match_data's dedup set (specification Spec).       *)
(***************************************************************************)
Range(seq) == {seq[i] : i \in 1..Len(seq)}

\* C1 (as stated): within one run the match-detail endpoint is requested, as
\* a logical request, at most once for every match id, whatever the API
\* answers.
C1_FetchedAtMostOnce == rerequested = {}

\* C1 (amended): a match id whose detail fetch returned a payload is never
\* requested again: no match-detail request is in flight for an id of the
\* processed set, and every id has at most one record among those collected,
\* the processed ids being exactly the ids of the collected records.
C1_ProcessedNeverRefetched ==
    /\ pc = "detail" => Head(match_ids) \notin processed_match_ids
    /\ NoDuplicates(all_matches)
    /\ processed_match_ids = Range(all_matches)

\* a later player's list holds an id an earlier player's fetch has processed
C1_Witness ==
    /\ pc = "match"
    /\ idx >= 2
    /\ match_ids # <<>>
    /\ Head(match_ids) \in processed_match_ids
    /\ rerequested = {}

(***************************************************************************)
(* Claims about _make_request (specification SpecRequest).                 *)
(***************************************************************************)
IsStatus(o, status) == o.resp.kind = "response" /\ o.resp.status = status
IsErrorStatus(o) ==
    /\ o.resp.kind = "response"
    /\ o.resp.status \notin {200, 429}
    /\ o.resp.status >= 400

\* C2: a response whose status is neither 200 nor 429 (403, 404, 500) ends
\* the logical request at once: it is the last HTTP request of the logical
\* request, the request fails, and no backoff sleep is made.
C2_FatalStatusFailsImmediately ==
    \A i \in 1..Len(hist) :
        IsErrorStatus(hist[i]) =>
            /\ i = Len(hist)
            /\ hist[i].next = "raise"
            /\ hist[i].slept = <<>>

\* C3: while every response is a 429 or a transport failure the request goes
\* on up to max_retries HTTP requests; after max_retries of them it has ended
\* without a result (the exhausted outcome), and no logical request ever
\* issues more than max_retries HTTP requests.
C3_ExhaustedAfterMaxRetries ==
    /\ Len(hist) <= max_retries
    /\ (\A i \in 1..Len(hist) : Retryable(hist[i].resp)) =>
          /\ Len(hist) < max_retries => outcome \in {"idle", "running"}
          /\ Len(hist) = max_retries => outcome \in {"none", "raise"}

\* max_retries retryable failures, of both sorts, have been answered
C3_Witness ==
    /\ Len(hist) = max_retries
    /\ \A i \in 1..Len(hist) : Retryable(hist[i].resp)
    /\ \E i \in 1..Len(hist) : hist[i].resp.kind = "exception"
    /\ \E i \in 1..Len(hist) : IsStatus(hist[i], 429)
    /\ outcome \in {"none", "raise"}

\* C4: a 429 at attempt n with retry hint h (1 when the header is absent)
\* sleeps exactly max(h, min(base_delay * 2^n, max_delay)) and goes on to
\* attempt n + 1, and no other status code leads to a sleep followed by the
\* next attempt.
C4_Only429BacksOff ==
    \A i \in 1..Len(hist) :
        LET o == hist[i]
            n == o.attempt
        IN  /\ IsStatus(o, 429) =>
                  /\ o.slept = <<Max(retry_after(o.resp.hint),
                                      Min(base_delay * (2 ^ n), max_delay))>>
                  /\ o.next = "retry" <=> n + 1 < max_retries
            /\ (o.resp.kind = "response" /\ o.resp.status # 429) =>
                  ~(o.slept # <<>> /\ o.next = "retry")

\* C5: a transport failure at attempt n, n being the number of HTTP requests
\* the logical request made before it (429 retries included), is retried
\* after min(base_delay * 2^n, max_delay) when n + 1 < max_retries, and ends
\* the request otherwise: one attempt counter, one cap.
C5_TransportRetriesOnSchedule ==
    \A i \in 1..Len(hist) :
        LET o == hist[i]
        IN  /\ o.attempt = i - 1
            /\ i <= max_retries
            /\ o.resp.kind = "exception" =>
                  IF i < max_retries
                  THEN /\ o.next = "retry"
                       /\ o.slept = <<Min(base_delay * (2 ^ (i - 1)), max_delay)>>
                  ELSE /\ o.next = "raise"
                       /\ o.slept = <<>>

\* a transport failure is retried after a 429 was, on the shared counter
C5_Witness ==
    \E i, j \in 1..Len(hist) :
        /\ i < j
        /\ IsStatus(hist[i], 429)
        /\ hist[j].resp.kind = "exception"
        /\ hist[j].next = "retry"
        /\ hist[j].slept = <<2 ^ (j - 1)>>

IsOtherStatus(o) ==
    /\ o.resp.kind = "response"
    /\ o.resp.status \notin {200, 429}
    /\ o.resp.status < 400

\* C23: a response whose status is neither 200 nor 429 nor an error status
\* (204) makes _make_request go on to the next attempt at once, with no
\* sleep; a request that gets only such responses makes exactly max_retries
\* HTTP requests and then returns None, without raising.
C23_OtherStatusRetriedAtOnce ==
    /\ \A i \in 1..Len(hist) :
          IsOtherStatus(hist[i]) =>
              /\ hist[i].slept = <<>>
              /\ hist[i].next = (IF i < max_retries THEN "retry" ELSE "none")
    /\ ((\A i \in 1..Len(hist) : IsOtherStatus(hist[i]))
            /\ outcome \notin {"idle", "running"}) =>
          /\ Len(hist) = max_retries
          /\ outcome = "none"

\* max_retries responses 204 were received and the request returned None
C23_Witness ==
    /\ Len(hist) = max_retries
    /\ \A i \in 1..Len(hist) : IsStatus(hist[i], 204)
    /\ \A i \in 1..Len(hist) : hist[i].slept = <<>>
    /\ outcome = "none"

(***************************************************************************)
(* Claim about _exponential_backoff (specification SpecBackoff).           *)
(***************************************************************************)
\* C6: the backoff delay does not decrease from one attempt to the next and
\* never exceeds max_delay, and the sleep made on a 429 whose retry hint is
\* larger than the computed delay is at least the hint.
C6_BackoffMonotoneCapped ==
    /\ bo.delay <= bo.next_delay
    /\ bo.delay <= max_delay
    /\ retry_after(bo.hint) > bo.delay => bo.sleep >= retry_after(bo.hint)

\* the cap is reached, and a hint larger than the capped delay is slept
C6_Witness ==
    /\ bo.n >= 7
    /\ bo.delay = max_delay
    /\ bo.hint # <<>>
    /\ retry_after(bo.hint) > bo.delay
    /\ bo.sleep = retry_after(bo.hint)

(***************************************************************************)
(* Claims about run_full_pipeline (specification Spec).                    *)
(***************************************************************************)
\* C7: no failure inside one player's lookup chain (legacy lookup, match-id
\* listing, match-detail fetch) aborts the run: an exception never leaves
\* extract_match_data from within the loop over the entries.
C7_PlayerFailureNeverAborts == failed_at # "detail"

\* C8: a failed league fetch (a fatal status raised, or max_retries
\* consecutive 429 responses) never ends in the "completed successfully"
\* outcome of run_full_pipeline.
C8_LeagueFailureSurfaces ==
    (league_result = "raise" \/ (league_result = "none" /\ league_only_429))
        => pc # "done"

StepRank(p) ==
    CASE p = "static" -> 1
      [] p \in {"league", "entry", "summoner", "player", "ids", "match", "detail"} -> 2
      [] p = "build" -> 3
      [] p = "save" -> 4
      [] p = "done" -> 5
      [] OTHER -> 6

StepsForward ==
    /\ StepRank(pc') >= StepRank(pc)
    /\ (StepRank(pc') <= StepRank(pc) + 1 \/ pc' = "raised")
    /\ pc # "raised"

\* C9: the steps run in the order static catalog, match extraction, row
\* building, dataset save; once a step has raised nothing else happens; and
\* while the catalog is not loaded no Riot API request has been issued, and
\* after a raise no dataset has been written.
C9_StepsInOrder ==
    /\ [](static_data = "none" => ~api_requested /\ ~dataset_written /\ df = <<>>)
    /\ [](pc = "raised" => ~dataset_written /\ df = <<>>)
    /\ [](dataset_written => pc = "done")
    /\ [][StepsForward]_vars

\* the catalog could not be fetched and the run has raised
C9_Witness ==
    /\ pc = "raised"
    /\ failed_at = "static"
    /\ static_data = "none"

(***************************************************************************)
(* CDragonClient.find_current_set on its own.                              *)
(*                                                                         *)
(* A string is the sequence of its pieces, a decimal digit being a piece   *)
(* of its own: "TFTSet16" is <<"TFTSet", "1", "6">>.  The 'number' of a    *)
(* candidate is an int, a string, or missing.                              *)
(***************************************************************************)
DigitChar == <<"0", "1", "2", "3", "4", "5", "6", "7", "8", "9">>

\* str(n) of a natural number
RECURSIVE str(_)
str(n) == IF n < 10 THEN <<DigitChar[n + 1]>>
          ELSE str(n \div 10) \o <<DigitChar[(n % 10) + 1]>>

IntNum(n) == [t |-> "int", n |-> n, s |-> <<>>]
StrNum(s) == [t |-> "str", n |-> 0, s |-> s]
NoNum == [t |-> "none", n |-> 0, s |-> <<>>]

\* (the comparison with the number only)
number_matches_IntOnly(set_num, target_set_number) ==
    set_num.t = "int" /\ set_num.n = target_set_number

\* set_num == target_set_number or set_num == str(target_set_number)
number_matches(set_num, target_set_number) ==
    \/ set_num.t = "int" /\ set_num.n = target_set_number
    \/ set_num.t = "str" /\ set_num.s = str(target_set_number)

\* f"TFTSet{target_set_number}"
base_mutator(target_set_number) == <<"TFTSet">> \o str(target_set_number)

\* the indices of sets_data whose number matches, in source order
RECURSIVE matching_sets(_, _, _)
matching_sets(sets_data, target_set_number, from) ==
    IF from > Len(sets_data) THEN <<>>
    ELSE (IF number_matches(sets_data[from].number, target_set_number)
          THEN <<from>> ELSE <<>>)
         \o matching_sets(sets_data, target_set_number, from + 1)

\* the first of the matching indices whose mutator is the base mutator, or 0
RECURSIVE first_base_set(_, _, _)
first_base_set(sets_data, matching, base) ==
    IF matching = <<>> THEN 0
    ELSE IF sets_data[Head(matching)].mutator = base THEN Head(matching)
    ELSE first_base_set(sets_data, Tail(matching), base)

Found(i, warnings) == [index |-> i, warnings |-> warnings]

\* (no preference for the base set: the first match, as for one match)
find_current_set_FirstMatch(sets_data, target_set_number) ==
    LET matching == matching_sets(sets_data, target_set_number, 1)
    IN  IF sets_data = <<>> THEN Found(0, <<"no set data">>)
        ELSE IF matching = <<>> THEN Found(Len(sets_data), <<"using last set">>)
        ELSE Found(Head(matching), <<>>)

\* (the fallback for an unknown number returning the first set of the catalog)
find_current_set_FallbackFirst(sets_data, target_set_number) ==
    LET matching == matching_sets(sets_data, target_set_number, 1)
        base == first_base_set(sets_data, matching,
                               base_mutator(target_set_number))
    IN  IF sets_data = <<>> THEN Found(0, <<"no set data">>)
        ELSE IF matching = <<>> THEN Found(1, <<"using last set">>)
        ELSE IF Len(matching) > 1
        THEN IF base # 0 THEN Found(base, <<>>)
             ELSE Found(Head(matching), <<"no exact base set">>)
        ELSE Found(Head(matching), <<>>)

\* (the search for the base set made for a single match too)
find_current_set_VariantsAlways(sets_data, target_set_number) ==
    LET matching == matching_sets(sets_data, target_set_number, 1)
        base == first_base_set(sets_data, matching,
                               base_mutator(target_set_number))
    IN  IF sets_data = <<>> THEN Found(0, <<"no set data">>)
        ELSE IF matching = <<>> THEN Found(Len(sets_data), <<"using last set">>)
        ELSE IF base # 0 THEN Found(base, <<>>)
        ELSE Found(Head(matching), <<"no exact base set">>)

\* (the last match returned when no match is the base set)
find_current_set_LastMatch(sets_data, target_set_number) ==
    LET matching == matching_sets(sets_data, target_set_number, 1)
        base == first_base_set(sets_data, matching,
                               base_mutator(target_set_number))
    IN  IF sets_data = <<>> THEN Found(0, <<"no set data">>)
        ELSE IF matching = <<>> THEN Found(Len(sets_data), <<"using last set">>)
        ELSE IF Len(matching) > 1
        THEN IF base # 0 THEN Found(base, <<>>)
             ELSE Found(matching[Len(matching)], <<"no exact base set">>)
        ELSE Found(Head(matching), <<>>)

\* find_current_set with the catalog loaded: the index in setData of the
\* candidate returned (0: None) and the warnings logged
find_current_set(sets_data, target_set_number) ==
    LET matching == matching_sets(sets_data, target_set_number, 1)
        base == first_base_set(sets_data, matching,
                               base_mutator(target_set_number))
    IN  IF sets_data = <<>> THEN Found(0, <<"no set data">>)
        ELSE IF matching = <<>> THEN Found(Len(sets_data), <<"using last set">>)
        ELSE IF Len(matching) > 1
        THEN IF base # 0 THEN Found(base, <<>>)
             ELSE Found(Head(matching), <<"no exact base set">>)
        ELSE Found(Head(matching), <<>>)

\* the set numbers asked for: the default of the pipeline, and a one-digit one
Targets == {16, 9}

Suffixes == {<<"_Stage2">>}

\* the 'number' and 'mutator' fields a candidate may carry for target n
NumbersFor(n) == {IntNum(n), StrNum(str(n)), IntNum(n + 1), NoNum}
MutatorsFor(n) ==
    {<<>>, <<"TFTSet">> \o str(n), <<"Set">> \o str(n)}
    \cup {<<"TFTSet">> \o str(n) \o x : x \in Suffixes}
    \cup {<<"Set">> \o str(n) \o x : x \in Suffixes}
CandidatesFor(n) == [number : NumbersFor(n), mutator : MutatorsFor(n)]

\* find_current_set has not been called yet
NotCalled == Found(0, <<"not called">>)

\* a catalog is loaded (static_data['setData']) and a target number chosen
SetInit ==
    /\ PipeInit
    /\ env = AnyRun
    /\ sn = <<>>
    /\ bo = <<>>
    /\ bd = <<>>
    /\ it = <<>>
    /\ \E n \in Targets :
         \E sets_data \in SeqsUpTo(CandidatesFor(n), MaxSets) :
             fs = [setData |-> sets_data, target |-> n, result |-> NotCalled]

FindCurrentSet ==
    /\ fs.result = NotCalled
    /\ fs' = [fs EXCEPT !.result = find_current_set(fs.setData, fs.target)]
    /\ UNCHANGED <<pipeVars, bo, bd, it, sn>>

SpecSet == SetInit /\ [][FindCurrentSet]_vars

(***************************************************************************)
(* find_current_set on catalogs whose candidates carry a 'number' of every *)
(* encoding: the int, its decimal string, another int, the decimal string  *)
(* of another int, a string with a leading zero, or none.                  *)
(***************************************************************************)
EncodedNumbersFor(n) ==
    NumbersFor(n) \cup {StrNum(str(n + 1)), StrNum(<<"0">> \o str(n))}
EncodedMutatorsFor(n) ==
    {<<>>, <<"TFTSet">> \o str(n)}
    \cup {<<"TFTSet">> \o str(n) \o x : x \in Suffixes}
EncodedCandidatesFor(n) ==
    [number : EncodedNumbersFor(n), mutator : EncodedMutatorsFor(n)]

NumbersInit ==
    /\ PipeInit
    /\ env = AnyRun
    /\ sn = <<>>
    /\ bo = <<>>
    /\ bd = <<>>
    /\ it = <<>>
    /\ \E n \in Targets :
         \E sets_data \in SeqsUpTo(EncodedCandidatesFor(n), MaxSets) :
             fs = [setData |-> sets_data, target |-> n, result |-> NotCalled]

SpecNumbers == NumbersInit /\ [][FindCurrentSet]_vars

(***************************************************************************)
(* CDragonClient.extract_items, lines 169-228, as a function of             *)
(* static_data['items'] and of the 'items' of the set find_current_set      *)
(* returned (empty when there is no set).  An item object has 'id',         *)
(* 'apiName', 'from' and 'composition' or not (<<>>: the key is missing);    *)
(* a dict is a function of its keys; a string is the sequence of its pieces. *)
(***************************************************************************)
EmptyDict == [k \in {} |-> <<>>]
Put(dict, k, v) == [x \in DOMAIN dict \cup {k} |-> IF x = k THEN v ELSE dict[x]]

\* str(item.get('id', item.get('apiName', ''))): lines 181 and 217
item_id(obj) ==
    IF obj.id # <<>> THEN str(obj.id[1])
    ELSE IF obj.apiName # <<>> THEN obj.apiName[1]
    ELSE <<>>

\* lines 178-183: the root items by their id
RECURSIVE root_items(_)
root_items(root_items_list) ==
    IF root_items_list = <<>> THEN EmptyDict
    ELSE LET n == Len(root_items_list)
             dict == root_items(SubSeq(root_items_list, 1, n - 1))
             root_item == root_items_list[n]
         IN  IF item_id(root_item) # <<>>
             THEN Put(dict, item_id(root_item), root_item)
             ELSE dict

\* lines 209-213 and 221-225: the record of an item
item_record(obj) ==
    [name |-> obj.name,
     description |-> obj.desc,
     from |-> IF obj.from # <<>> THEN obj.from[1]
              ELSE IF obj.composition # <<>> THEN obj.composition[1]
              ELSE <<>>]

\* the elements of an items list: an id string, or a full object
ItemStr(string) == [kind |-> "str", value |-> string]
ItemDict(obj) == [kind |-> "dict", value |-> obj]

\* lines 197-225: the loop over items_data
RECURSIVE process_items(_, _)
process_items(root, items_data) ==
    IF items_data = <<>> THEN EmptyDict
    ELSE LET n == Len(items_data)
             items == process_items(root, SubSeq(items_data, 1, n - 1))
             item == items_data[n]
         IN  IF item.kind = "str"
             THEN IF item.value \in DOMAIN root
                  THEN Put(items, item.value, item_record(root[item.value]))
                  ELSE items
             ELSE IF item_id(item.value) # <<>>
                  THEN Put(items, item_id(item.value), item_record(item.value))
                  ELSE items

\* (no fallback to the root catalog)
extract_items_NoFallback(root_items_list, set_items) ==
    process_items(root_items(root_items_list), set_items)

\* lines 174-228; set_items is current_set.get('items', []), or [] when
\* find_current_set returned None
extract_items(root_items_list, set_items) ==
    LET items_data ==
            IF set_items = <<>>
            THEN [i \in 1..Len(root_items_list) |-> ItemDict(root_items_list[i])]
            ELSE set_items
    IN  process_items(root_items(root_items_list), items_data)

(***************************************************************************)
(* extract_items on its own: a root catalog, and some of its items listed   *)
(* in the set once as id strings and once as full objects.                  *)
(***************************************************************************)
ItemIds == {1, 2}
ApiNames == {<<"TFT_Item_A">>, <<"TFT_Item_B">>}
ItemNames == {"x", "y"}
ItemObjects ==
    [id : {<<>>} \cup {<<i>> : i \in ItemIds},
     apiName : {<<>>} \cup {<<a>> : a \in ApiNames},
     name : ItemNames, desc : {"d"}, from : {<<>>}, composition : {<<>>}]

\* the string that names an item in a set: its id or its apiName, the one
\* of the two given by 'by' when it has both
Identifier(obj, by) ==
    IF obj.apiName = <<>> \/ (by = "id" /\ obj.id # <<>>)
    THEN str(obj.id[1])
    ELSE obj.apiName[1]

\* an identifier string that names no item of the root catalog
UnknownItem == <<"TFT_Item_Unknown">>

\* the items of the catalog at the positions picked, in the catalog's order
RECURSIVE Picked(_, _)
Picked(list, positions) ==
    IF list = <<>> THEN <<>>
    ELSE Picked(SubSeq(list, 1, Len(list) - 1), positions) \o
         (IF Len(list) \in positions THEN <<list[Len(list)]>> ELSE <<>>)

\* a root catalog: no id and no apiName is given to two of its items
RootCatalogs ==
    {root \in SeqsUpTo(ItemObjects, MaxItems) :
        \A i, j \in 1..Len(root) :
            i # j => /\ (root[i].id = <<>> \/ root[i].id # root[j].id)
                     /\ (root[i].apiName = <<>> \/ root[i].apiName # root[j].apiName)}

ItemsInit ==
    /\ PipeInit
    /\ env = AnyRun
    /\ sn = <<>>
    /\ bo = <<>>
    /\ fs = <<>>
    /\ bd = <<>>
    /\ \E root \in RootCatalogs, by \in {"id", "apiName"} :
         \E positions \in SUBSET {i \in 1..Len(root) :
                                      root[i].id # <<>> \/ root[i].apiName # <<>>} :
             it = [root |-> root, underlying |-> Picked(root, positions),
                   by |-> by, called |-> FALSE,
                   from_strings |-> EmptyDict, from_objects |-> EmptyDict,
                   from_unknown |-> EmptyDict]

ExtractItems ==
    /\ ~it.called
    /\ LET strings == [i \in 1..Len(it.underlying) |->
                          ItemStr(Identifier(it.underlying[i], it.by))]
           objects == [i \in 1..Len(it.underlying) |-> ItemDict(it.underlying[i])]
       IN  it' = [it EXCEPT !.called = TRUE,
                            !.from_strings = extract_items(it.root, strings),
                            !.from_objects = extract_items(it.root, objects),
                            !.from_unknown =
                                extract_items(it.root,
                                              strings \o <<ItemStr(UnknownItem)>>)]
    /\ UNCHANGED <<pipeVars, bo, fs, bd, sn>>

SpecItems == ItemsInit /\ [][ExtractItems]_vars

(***************************************************************************)
(* CDragonClient.extract_champions, extract_traits and save_static_data.   *)
(* A field that a dict has or not is <<>> when the key is missing and      *)
(* <<v>> when its value is v.  The catalog static_data has 'setData' and    *)
(* 'items' or not; a candidate of setData has 'number', 'mutator',          *)
(* 'champions', 'traits' and 'items' ([] when missing); a champion has      *)
(* 'characterName', 'name', 'cost', 'traits' and 'stats' or not, a trait    *)
(* has 'name', 'display_name' and 'effects' or not.  An identifier is the   *)
(* sequence of its characters.                                              *)
(***************************************************************************)
\* str.lower(), on the characters the identifiers are made of
LowerChar(c) == IF c = "A" THEN "a" ELSE IF c = "B" THEN "b" ELSE c

\* (the identifier taken as it is)
lower_AsIs(s) == s

lower(s) == [i \in 1..Len(s) |-> LowerChar(s[i])]

\* dict.get(key, default)
get(field, default) == IF field = <<>> THEN default ELSE field[1]

\* `if not self.static_data` is false: the dict has a key
loaded(catalog) ==
    catalog.setData # <<>> \/ catalog.items # <<>>

\* self.find_current_set(target_set_number): <<>> for None
current_set(catalog, target_set_number) ==
    LET sets_data == get(catalog.setData, <<>>)
        found == find_current_set(sets_data, target_set_number)
    IN  IF found.index = 0 THEN <<>> ELSE <<sets_data[found.index]>>

\* (the first candidate taken when no number matches)
current_set_FallbackFirst(catalog, target_set_number) ==
    LET sets_data == get(catalog.setData, <<>>)
        found == find_current_set_FallbackFirst(sets_data, target_set_number)
    IN  IF found.index = 0 THEN <<>> ELSE <<sets_data[found.index]>>

\* lines 135-140: the record of a champion
champion_record(champion) ==
    [name |-> get(champion.name, ""),
     cost |-> get(champion.cost, 0),
     traits |-> get(champion.traits, <<>>),
     stats |-> get(champion.stats, EmptyDict)]

\* lines 130-140: the loop over the champions of the set
RECURSIVE champions_of(_)
champions_of(list) ==
    IF list = <<>> THEN EmptyDict
    ELSE LET n == Len(list)
             champions == champions_of(SubSeq(list, 1, n - 1))
             champion == list[n]
             char_id == lower(get(champion.characterName, <<>>))
         IN  IF char_id # <<>>
             THEN Put(champions, char_id, champion_record(champion))
             ELSE champions

\* lines 121-143
extract_champions(catalog, target_set_number) ==
    LET set == current_set(catalog, target_set_number)
    IN  IF set = <<>> THEN EmptyDict ELSE champions_of(set[1].champions)

\* lines 161-164: the record of a trait
trait_record(trait) ==
    [display_name |-> get(trait.display_name, ""),
     effects |-> get(trait.effects, <<>>)]

\* lines 156-164: the loop over the traits of the set
RECURSIVE traits_of(_)
traits_of(list) ==
    IF list = <<>> THEN EmptyDict
    ELSE LET n == Len(list)
             traits == traits_of(SubSeq(list, 1, n - 1))
             trait == list[n]
             trait_id == lower(get(trait.name, <<>>))
         IN  IF trait_id # <<>>
             THEN Put(traits, trait_id, trait_record(trait))
             ELSE traits

\* (the traits taken from the first candidate when no number matches)
extract_traits_FirstSet(catalog, target_set_number) ==
    LET set == current_set_FallbackFirst(catalog, target_set_number)
    IN  IF set = <<>> THEN EmptyDict ELSE traits_of(set[1].traits)

\* lines 150-167
extract_traits(catalog, target_set_number) ==
    LET set == current_set(catalog, target_set_number)
    IN  IF set = <<>> THEN EmptyDict ELSE traits_of(set[1].traits)

\* lines 185-190 of extract_items: current_set.get('items', []), or []
set_items(catalog, target_set_number) ==
    LET set == current_set(catalog, target_set_number)
    IN  IF set = <<>> THEN <<>> ELSE set[1].items

\* lines 232-238: static_ref (without its timestamp)
save_static_data(catalog, target_set_number) ==
    [set_number |-> target_set_number,
     champions |-> extract_champions(catalog, target_set_number),
     traits |-> extract_traits(catalog, target_set_number),
     items |-> extract_items(get(catalog.items, <<>>),
                             set_items(catalog, target_set_number))]

\* no snapshot has been made
NoSnapshot ==
    [set_number |-> 0, champions |-> EmptyDict, traits |-> EmptyDict,
     items |-> EmptyDict]

Champion(characterName, name) ==
    [characterName |-> characterName, name |-> <<name>>, cost |-> <<1>>,
     traits |-> <<>>, stats |-> <<>>]
TraitObject(name, display_name) ==
    [name |-> name, display_name |-> <<display_name>>, effects |-> <<>>]
RootItem(id, name) ==
    [id |-> <<id>>, apiName |-> <<>>, name |-> name, desc |-> "d",
     from |-> <<>>, composition |-> <<>>]

(***************************************************************************)
(* save_static_data on catalogs of up to MaxCandidates candidates, each    *)
(* numbered as the target or not, with champions, traits and items of its  *)
(* own; 'setData' and 'items' may be missing from the catalog.             *)
(***************************************************************************)
MaxCandidates == 2

SnapshotCandidatesFor(n) ==
    [number : {IntNum(n), IntNum(n + 1)},
     mutator : {base_mutator(n), base_mutator(n) \o <<"_Stage2">>},
     champions : {<<Champion(<<<<"A">>>>, x)>> : x \in {"x", "y"}},
     traits : {<<TraitObject(<<<<"B">>>>, x)>> : x \in {"x", "y"}},
     items : {<<>>, <<ItemStr(str(1))>>}]

SnapshotCatalogsFor(n) ==
    [setData : {<<>>} \cup {<<sets_data>> :
                    sets_data \in SeqsUpTo(SnapshotCandidatesFor(n), MaxCandidates)},
     items : {<<>>, <<<<RootItem(1, "x"), RootItem(2, "y")>>>>}]

SnapshotInit ==
    /\ PipeInit
    /\ env = AnyRun
    /\ bo = <<>>
    /\ fs = <<>>
    /\ bd = <<>>
    /\ it = <<>>
    /\ \E n \in Targets :
         \E catalog \in SnapshotCatalogsFor(n) :
             sn = [static_data |-> catalog, target |-> n,
                   outcome |-> "not called", snapshot |-> NoSnapshot]

\* save_static_data(target_set_number=target): every function it calls
\* raises ValueError on a catalog that is not loaded; the file is written
\* otherwise
SaveStaticData ==
    /\ sn.outcome = "not called"
    /\ sn' = IF loaded(sn.static_data)
             THEN [sn EXCEPT !.outcome = "written",
                             !.snapshot = save_static_data(sn.static_data, sn.target)]
             ELSE [sn EXCEPT !.outcome = "ValueError"]
    /\ UNCHANGED <<pipeVars, bo, fs, bd, it>>

SpecSnapshot == SnapshotInit /\ [][SaveStaticData]_vars

(***************************************************************************)
(* save_static_data on catalogs whose one candidate has up to MaxEntries   *)
(* champions, or up to MaxEntries traits, with identifiers of every sort:  *)
(* missing, empty, and differing by the case of their letters only.        *)
(***************************************************************************)
MaxEntries == 3

\* target_set_number: int = 16
default_target == 16

Identifiers ==
    {<<>>} \cup {<<s>> : s \in {<<>>, <<"B">>, <<"A", "b">>, <<"a", "B">>}}
ChampionObjects == {Champion(c, x) : c \in Identifiers, x \in {"x", "y"}}
TraitObjects == {TraitObject(c, x) : c \in Identifiers, x \in {"x", "y"}}

EntriesCandidatesFor(n) ==
    {[number |-> IntNum(n), mutator |-> base_mutator(n),
      champions |-> champions, traits |-> <<>>, items |-> <<>>] :
        champions \in SeqsUpTo(ChampionObjects, MaxEntries)}
    \cup
    {[number |-> IntNum(n), mutator |-> base_mutator(n),
      champions |-> <<>>, traits |-> traits, items |-> <<>>] :
        traits \in SeqsUpTo(TraitObjects, MaxEntries)}

EntriesInit ==
    /\ PipeInit
    /\ env = AnyRun
    /\ bo = <<>>
    /\ fs = <<>>
    /\ bd = <<>>
    /\ it = <<>>
    /\ \E set \in EntriesCandidatesFor(default_target) :
         sn = [static_data |-> [setData |-> <<<<set>>>>, items |-> <<>>],
               target |-> default_target,
               outcome |-> "not called", snapshot |-> NoSnapshot]

SpecEntries == EntriesInit /\ [][SaveStaticData]_vars

(***************************************************************************)
(* Claims about find_current_set (specification SpecSet).                  *)
(***************************************************************************)
Matching == matching_sets(fs.setData, fs.target, 1)

\* the catalog has two candidates of the target number, at i and j: the
\* one at i tagged canonical, the one at j tagged canonical with a suffix
TwoVariants(canonical, i, j) ==
    /\ fs.result # NotCalled
    /\ Matching \in {<<i, j>>, <<j, i>>}
    /\ fs.setData[i].mutator = canonical
    /\ \E x \in Suffixes : fs.setData[j].mutator = canonical \o x

\* C10 (as stated): of two candidates of set number N, one tagged with the
\* canonical mutator "Set{N}" and one with a suffixed variant of it,
\* find_current_set(N) returns the canonical one, in both orders.
C10_CanonicalSetPreferred ==
    \A i, j \in 1..Len(fs.setData) :
        TwoVariants(<<"Set">> \o str(fs.target), i, j) => fs.result.index = i

\* C10 (amended): the same with the canonical mutator being "TFTSet{N}".
C10_BaseMutatorPreferred ==
    \A i, j \in 1..Len(fs.setData) :
        TwoVariants(<<"TFTSet">> \o str(fs.target), i, j) =>
            /\ fs.result.index = i
            /\ fs.result.warnings = <<>>

\* the suffixed variant comes first in the array and the base set is returned
C10_Witness ==
    \E i, j \in 1..Len(fs.setData) :
        /\ j < i
        /\ TwoVariants(<<"TFTSet">> \o str(fs.target), i, j)
        /\ fs.result.index = i

\* the positions in the catalog of the candidates whose number is the
\* target, as an integer or as its decimal string
CandidatesOfTarget ==
    {i \in 1..Len(fs.setData) : number_matches(fs.setData[i].number, fs.target)}

\* C11: with a non-empty catalog holding no candidate of number N,
\* find_current_set(N) returns the last candidate of the catalog and logs
\* exactly one warning, the fallback one; it returns normally.
C11_FallbackToLast ==
    (fs.result # NotCalled /\ fs.setData # <<>> /\ CandidatesOfTarget = {}) =>
        /\ fs.result.index = Len(fs.setData)
        /\ fs.result.warnings = <<"using last set">>

\* a catalog of several sets, none of the target number, has been searched
C11_Witness ==
    /\ fs.result # NotCalled
    /\ Len(fs.setData) > 1
    /\ CandidatesOfTarget = {}
    /\ fs.result.index = Len(fs.setData)

\* C12: with exactly one candidate of number N in the catalog, wherever it
\* stands and whatever its mutator, find_current_set(N) returns that
\* candidate and logs no warning.
C12_SingleMatchReturned ==
    \A i \in 1..Len(fs.setData) :
        (fs.result # NotCalled /\ CandidatesOfTarget = {i}) =>
            /\ fs.result.index = i
            /\ fs.result.warnings = <<>>

\* the single candidate stands in the middle of the catalog, without the
\* base mutator
C12_Witness ==
    /\ fs.result # NotCalled
    /\ Len(fs.setData) = 3
    /\ CandidatesOfTarget = {2}
    /\ fs.setData[2].mutator # base_mutator(fs.target)
    /\ fs.result.index = 2

\* no candidate of the target number carries the base mutator
NoBaseSet ==
    \A i \in CandidatesOfTarget : fs.setData[i].mutator # base_mutator(fs.target)

\* C13: with two or more candidates of number N, none of them tagged with
\* the base mutator, find_current_set(N) returns the first of them in the
\* order of the catalog and logs the warning about the missing base set;
\* the result is the one computed from the catalog and N alone.
C13_FirstVariantWithWarning ==
    (fs.result # NotCalled /\ Cardinality(CandidatesOfTarget) >= 2 /\ NoBaseSet) =>
        /\ \A i \in CandidatesOfTarget : fs.result.index <= i
        /\ fs.result.index \in CandidatesOfTarget
        /\ fs.result.warnings = <<"no exact base set">>
        /\ fs.result = find_current_set(fs.setData, fs.target)

\* two variants of the target set follow a set of another number
C13_Witness ==
    /\ fs.result # NotCalled
    /\ CandidatesOfTarget = {2, 3}
    /\ NoBaseSet
    /\ fs.setData[2].mutator # fs.setData[3].mutator
    /\ fs.result.index = 2

(***************************************************************************)
(* Claims about build_training_dataframe (specification SpecBuild).        *)
(***************************************************************************)
RECURSIVE ParticipantCount(_)
ParticipantCount(matches) ==
    IF matches = <<>> THEN 0
    ELSE Len(Head(matches).participants) + ParticipantCount(Tail(matches))

\* the place in the dataframe of participant p of match m
RowOf(m, p) == ParticipantCount(SubSeq(bd.match_data, 1, m - 1)) + p

\* C16: the dataframe has one row for each participant of each match, in
\* the order of the matches and, within a match, of its participants: as
\* many rows as the matches have participants together (none for no match
\* or matches without participants), equal matches and equal participants
\* included.
C16_OneRowPerParticipant ==
    bd.built =>
        /\ Len(bd.df) = ParticipantCount(bd.match_data)
        /\ \A m \in 1..Len(bd.match_data) :
             \A p \in 1..Len(bd.match_data[m].participants) :
                 /\ bd.df[RowOf(m, p)].match_id = bd.match_data[m].match_id
                 /\ bd.df[RowOf(m, p)].traits =
                        traits_cell(bd.match_data[m].participants[p].traits)

\* the same match twice, with two equal participants: four equal rows
C16_Witness ==
    /\ bd.built
    /\ Len(bd.match_data) = 2
    /\ bd.match_data[1] = bd.match_data[2]
    /\ Len(bd.match_data[1].participants) = 2
    /\ bd.match_data[1].participants[1] = bd.match_data[1].participants[2]
    /\ Len(bd.df) = 4
    /\ \A k \in 1..4 : bd.df[k] = bd.df[1]

\* the traits whose tier_current is present and positive, in their order,
\* with the three fields of the encoding
PositiveTraits(traits) ==
    LET Positive(t) == t.tier_current # <<>> /\ t.tier_current[1] > 0
        kept == SelectSeq(traits, Positive)
    IN  [i \in 1..Len(kept) |->
            [name |-> kept[i].name,
             tier_current |-> kept[i].tier_current,
             num_units |-> kept[i].num_units]]

\* C17: the trait encoding of every row holds exactly the traits of the
\* participant whose tier_current, taken as 0 when missing, is greater than
\* 0, in the order they have in the participant.
C17_OnlyActiveTraits ==
    bd.built =>
        \A m \in 1..Len(bd.match_data) :
            \A p \in 1..Len(bd.match_data[m].participants) :
                bd.df[RowOf(m, p)].traits =
                    PositiveTraits(bd.match_data[m].participants[p].traits)

\* a participant with an active trait, one of tier 0 or without tier, and
\* another active trait: the row holds the first and the third
C17_Witness ==
    /\ bd.built
    /\ Len(bd.match_data) = 1
    /\ Len(bd.match_data[1].participants) = 1
    /\ LET traits == bd.match_data[1].participants[1].traits
       IN  /\ Len(traits) = 3
           /\ tier_current(traits[1]) > 0
           /\ tier_current(traits[2]) = 0
           /\ tier_current(traits[3]) > 0
           /\ traits[1].name # traits[3].name
           /\ Len(bd.df[1].traits) = 2
           /\ bd.df[1].traits[1].name = traits[1].name
           /\ bd.df[1].traits[2].name = traits[3].name

(***************************************************************************)
(* Claim about the player reference of a league entry (specification       *)
(* Spec).                                                                  *)
(***************************************************************************)
\* the entry the loop is at
CurrentEntry == Head(challenger_entries)

\* the loop leaves an entry it found no player reference for
SkipsEntry ==
    /\ pc \in {"entry", "summoner"}
    /\ challenger_entries # <<>>
    /\ challenger_entries' = Tail(challenger_entries)

\* no step asks for the match ids of an entry without a player reference,
\* and skipping an entry goes on with the next one
ReferenceNeeded ==
    /\ (pc' = "ids" /\ pc # "ids") =>
           /\ pc = "player"
           /\ puuid # "none"
           /\ ~ids_requested /\ ids_requested'
    /\ SkipsEntry =>
           /\ puuid' = "none"
           /\ ~ids_requested'
           /\ lookups' = (IF pc = "summoner" THEN 1 ELSE 0)
           /\ pc' = "entry"
           /\ idx' = idx + 1
           /\ failed_at' = "none"
           /\ UNCHANGED <<all_matches, processed_match_ids, requested>>

\* C14: for each league entry, the puuid of the entry is used when it is
\* there, with no legacy lookup; an entry without puuid but with a
\* summonerId gets exactly one legacy lookup, whose puuid is used; and an
\* entry for which neither gives a reference (no such fields, a failed
\* lookup, a lookup answer without puuid) is skipped, with no match-id
\* request made for it, and the run goes on with the next entry.
C14_PlayerReference ==
    /\ [](pc \in {"player", "ids", "match", "detail"} =>
            /\ puuid # "none"
            /\ CurrentEntry.puuid => (puuid = "entry" /\ lookups = 0)
            /\ ~CurrentEntry.puuid =>
                  (CurrentEntry.summonerId /\ puuid = "lookup" /\ lookups = 1))
    /\ [](pc = "summoner" =>
            /\ ~CurrentEntry.puuid /\ CurrentEntry.summonerId
            /\ puuid = "none" /\ lookups = 1 /\ ~ids_requested)
    /\ [](ids_requested => puuid # "none")
    /\ [][ReferenceNeeded]_vars

\* the first entry was skipped after its one lookup (the stale puuid is
\* "none" and nothing was requested for it), and the match ids of the
\* second are being asked for with the puuid its lookup gave
C14_Witness ==
    /\ pc = "ids"
    /\ idx = 2
    /\ puuid = "lookup"
    /\ lookups = 1
    /\ ids_requested
    /\ requested = {}

(***************************************************************************)
(* Claim about the bookkeeping of extract_match_data (specification Spec). *)
(***************************************************************************)
\* C19: all along extract_match_data the set processed_match_ids holds
\* exactly the match ids whose match-detail request returned a payload, and
\* all_matches has as many records as the set has ids; an id whose request
\* returned nothing (five 429 responses) is not in the set and has no
\* record.
C19_ProcessedIsReturned ==
    /\ processed_match_ids = returned
    /\ Len(all_matches) = Cardinality(processed_match_ids)
    /\ \A m \in requested \ returned :
          /\ m \notin processed_match_ids
          /\ \A i \in 1..Len(all_matches) : all_matches[i] # m

\* the request for one id returned nothing, the request for another one a
\* record, and the loop is back at its head
C19_Witness ==
    /\ pc = "match"
    /\ requested \ returned # {}
    /\ Cardinality(returned) = 1
    /\ Len(all_matches) = 1

(***************************************************************************)
(* Claim about the run in which every request succeeds (specification      *)
(* SpecE2E).                                                               *)
(***************************************************************************)
\* no row of the dataframe has a trait of tier 0 in its trait encoding
NoInactiveTrait ==
    \A k \in 1..Len(df) :
        \A i \in 1..Len(df[k].traits) :
            /\ df[k].traits[i].tier_current # <<>>
            /\ df[k].traits[i].tier_current[1] > 0

\* C15 (as stated): with every request succeeding, a league of 3 entries,
\* each with 2 match ids, one id common to entries 1 and 2, gives exactly 3
\* distinct match-detail requests and a dataset of 3 x participants_per_match
\* rows, none with a trait of tier 0 in its encoding.
C15_ThreeFetches ==
    pc = "done" =>
        /\ Cardinality(requested) = 3
        /\ Len(df) = 3 * participants_per_match
        /\ NoInactiveTrait

\* C15 (amended): the same run gives exactly 5 distinct match-detail
\* requests, the common id being requested once, and a written dataset of
\* 5 x participants_per_match rows, none with a trait of tier 0 in its
\* encoding.
C15_FiveFetches ==
    /\ failed_at = "none"
    /\ rerequested = {}
    /\ pc = "done" =>
          /\ Cardinality(requested) = 5
          /\ requested = returned
          /\ Len(match_data) = 5
          /\ Len(df) = 5 * participants_per_match
          /\ NoInactiveTrait
          /\ dataset_written

\* the run is over: the second player's list began with the id it has in
\* common with the first, and the rows have active traits
C15_Witness ==
    /\ pc = "done"
    /\ dataset_written
    /\ env.scripted
    /\ env.ids[2][1] \in Ids(env.ids[1])
    /\ requested = E2EMatchIds
    /\ Len(df) = 5 * participants_per_match
    /\ \E k \in 1..Len(df) : df[k].traits # <<>>

(***************************************************************************)
(* Claim about extract_items (specification SpecItems).                    *)
(***************************************************************************)
\* C18: for every root catalog and every list of its items, extract_items
\* gives the same records (same keys, same name, description and
\* components) when the set lists the items as bare identifier strings as
\* when it lists the same items as full objects.
C18_ItemRoundTrip ==
    it.called => it.from_strings = it.from_objects

\* the items of the root catalog that carry an id or an apiName
Identified == {i \in 1..Len(it.root) : item_id(it.root[i]) # <<>>}

\* the records of the full root catalog, each under its identifier
RootRecords ==
    [k \in {item_id(it.root[i]) : i \in Identified} |->
        item_record(it.root[CHOOSE i \in Identified : item_id(it.root[i]) = k])]

\* C25: an identifier string of the set's item list is resolved against the
\* root catalog by id or, secondarily, by apiName, and gives the record of
\* the root item it names; an identifier that names no root item is dropped
\* and produces no record; when the set's item list is empty, or there is
\* no set, the result is built from the full root catalog.
C25_IdentifierResolved ==
    it.called =>
        /\ \A i \in 1..Len(it.underlying) :
              LET s == Identifier(it.underlying[i], it.by)
              IN  /\ s \in DOMAIN it.from_strings
                  /\ it.from_strings[s] = item_record(it.underlying[i])
        /\ UnknownItem \notin DOMAIN it.from_unknown
        /\ it.underlying # <<>> => it.from_unknown = it.from_strings
        /\ it.underlying = <<>> => it.from_strings = RootRecords

(***************************************************************************)
(* Claims about the requests of extract_match_data (specification Spec).   *)
(***************************************************************************)
\* extract_match_data makes a request for the entry the loop is at
RequestBegins ==
    /\ pc' \in {"summoner", "ids", "detail"}
    /\ pc' # pc

\* a request for another entry than the last one follows the delay between
\* players
PlayerDelayKept ==
    (RequestBegins /\ last_request.idx \notin {0, idx}) =>
        player_delay_ms \in paced

\* C21: after every match-detail request that returned, with a record or
\* without, the courtesy delay is slept before the next request of the run,
\* however many attempts and backoff sleeps the request took; and between
\* the last request made for one league entry and the first request made
\* for the next one the longer delay between players is always slept.
C21_PacingDelays ==
    /\ []((last_request.kind = "detail" /\ pc \notin {"detail", "raised"}) =>
              courtesy_delay_ms \in paced)
    /\ courtesy_delay_ms < player_delay_ms
    /\ [][PlayerDelayKept]_vars

\* C22: the requests follow the chain league, player, match ids, match
\* details: no lookup and no match-id request is made before the league
\* answer has been received; the match ids of an entry are asked for only
\* once the puuid of the entry is known; and the details of a match id are
\* asked for only after a match-id listing holding that id was received.
C22_DependencyChain ==
    /\ (pc \in {"summoner", "player", "ids", "match", "detail"}
            \/ last_request.kind \in {"summoner", "ids", "detail"}) =>
           league_result = "return"
    /\ pc = "ids" => (puuid # "none" /\ last_request = Request("ids", idx, env.matches_per_player))
    /\ ids_requested => puuid # "none"
    /\ requested \subseteq listed
    /\ pc = "detail" => Head(match_ids) \in listed

\* the details of the second listed id are being asked for, for a player
\* whose puuid the lookup gave
C22_Witness ==
    /\ pc = "detail"
    /\ league_result = "return"
    /\ puuid = "lookup"
    /\ last_request.kind = "detail"
    /\ Cardinality(listed) = 2
    /\ Cardinality(requested) = 2

\* extract_match_data returns
ExtractReturns ==
    /\ extracted = NotReturned
    /\ extracted' # NotReturned

\* what the return leaves in self.match_data
StoredOnReturn ==
    ExtractReturns =>
        IF pc = "league"
        THEN /\ extracted'.matches = <<>>
             /\ match_data' = match_data
        ELSE match_data' = extracted'.matches

\* self.match_data changes only when extract_match_data returns
StoredOnlyOnReturn == (match_data' # match_data) => ExtractReturns

\* C24: when the league yields no entries extract_match_data returns the
\* empty collection and leaves the stored match_data as it was, so the
\* records of an earlier call remain; on every other normal return the
\* stored match_data is exactly the collection returned.
C24_StoredMatchData ==
    /\ [][StoredOnReturn]_vars
    /\ [][StoredOnlyOnReturn]_vars
    /\ [](league_result = "none" => extracted \in {NotReturned, Returned(<<>>)})
    /\ []((extracted # NotReturned /\ challenger_entries = <<>> /\ idx = 0)
             => (extracted.matches = <<>> /\ match_data \in EarlierMatchData))

\* the league answered with no entries: [] was returned, the earlier
\* records are still stored
C24_Witness ==
    /\ pc = "build"
    /\ league_result = "return"
    /\ idx = 0
    /\ extracted = Returned(<<>>)
    /\ match_data = <<2, 1>>

\* the positions, in the league response, of the entries that are sampled
Sampled == 1..Min(env.num_players, Len(env.league))

\* the positions of the sampled entries that give a player reference
Usable == {i \in Sampled : env.league[i].puuid \/ env.league[i].summonerId}

\* C26: only the first num_players entries of the league response are
\* processed, in response order (all of them when there are fewer); every
\* match-id listing carries matches_per_player as its count; no request is
\* made for an entry beyond the first num_players.
C26_FirstPlayersOnly ==
    /\ pc \in {"entry", "summoner", "player", "ids", "match", "detail"} =>
          challenger_entries = SubSeq(env.league, idx, Min(env.num_players, Len(env.league)))
    /\ last_request.kind \in {"summoner", "ids", "detail"} =>
          last_request.idx \in Sampled
    /\ last_request.kind = "ids" => last_request.count = env.matches_per_player
    /\ listed \subseteq Usable
    /\ requested \subseteq listed
    /\ (extracted.returned /\ env.league # <<>>) =>
          /\ listed = Usable
          /\ extracted.matches \in SeqsUpTo(Usable, num_players)
          /\ \A i, j \in 1..Len(extracted.matches) :
                i < j => extracted.matches[i] < extracted.matches[j]
          /\ Ids(extracted.matches) = Usable

\* the league response had one entry more than the sample of two: the first
\* two players were processed and nothing was asked for the third
C26_Witness ==
    /\ env.scripted
    /\ env.num_players = 2
    /\ Len(env.league) = 3
    /\ \A i \in 1..3 : env.league[i].puuid \/ env.league[i].summonerId
    /\ extracted = Returned(<<1, 2>>)
    /\ listed = {1, 2}

\* the candidates of setData numbered N, as a number or as the decimal
\* string of N
NumberedAs(n) ==
    {i \in 1..Len(fs.setData) :
        \/ fs.setData[i].number = IntNum(n)
        \/ fs.setData[i].number = StrNum(str(n))}

\* setData with every candidate numbered str(N) numbered N instead
AsIntegers ==
    [i \in 1..Len(fs.setData) |->
        IF fs.setData[i].number = StrNum(str(fs.target))
        THEN [fs.setData[i] EXCEPT !.number = IntNum(fs.target)]
        ELSE fs.setData[i]]

\* C28: find_current_set(N) takes a candidate as matching when its number is
\* N as a number or is the decimal string of N; a candidate numbered N as a
\* string is selected exactly as the same candidate numbered N as an
\* integer would be.
C28_NumberOrDecimalString ==
    fs.result # NotCalled =>
        /\ fs.result = find_current_set(AsIntegers, fs.target)
        /\ NumberedAs(fs.target) # {} => fs.result.index \in NumberedAs(fs.target)
        /\ Len(fs.setData) > 0 =>
              (NumberedAs(fs.target) = {} <=> fs.result.warnings = <<"using last set">>)
        /\ Cardinality(NumberedAs(fs.target)) = 1 => fs.result.warnings = <<>>

\* a candidate numbered "16" carrying the base mutator was preferred to an
\* earlier variant numbered 16
C28_Witness ==
    /\ fs.result # NotCalled
    /\ fs.target = 16
    /\ Len(fs.setData) = 3
    /\ fs.setData[1].number = IntNum(16)
    /\ fs.setData[1].mutator # base_mutator(16)
    /\ fs.setData[2].number = StrNum(<<"0", "1", "6">>)
    /\ fs.setData[3].number = StrNum(<<"1", "6">>)
    /\ fs.setData[3].mutator = base_mutator(16)
    /\ fs.result = Found(3, <<>>)

(***************************************************************************)
(* Claims about save_static_data (specifications SpecSnapshot and          *)
(* SpecEntries).                                                           *)
(***************************************************************************)
\* static_data.get('setData', []) and static_data.get('items', []) of the
\* catalog the snapshot is made of
SetData == get(sn.static_data.setData, <<>>)
RootList == get(sn.static_data.items, <<>>)

\* the three parts of the snapshot are those of candidate i of setData
AllFrom(i) ==
    /\ sn.snapshot.champions = champions_of(SetData[i].champions)
    /\ sn.snapshot.traits = traits_of(SetData[i].traits)
    /\ sn.snapshot.items = extract_items(RootList, SetData[i].items)

\* C27: the snapshot written by save_static_data always records the target
\* set number asked for as its set_number, also when no candidate has that
\* number and the champions, traits and items are those of a candidate with
\* another number; and the champions, traits and items of one snapshot are
\* all extracted from the same candidate, the one find_current_set selects.
C27_SnapshotOfOneCandidate ==
    sn.outcome = "written" =>
        /\ sn.snapshot.set_number = sn.target
        /\ SetData # <<>> =>
              /\ \E i \in 1..Len(SetData) : AllFrom(i)
              /\ AllFrom(find_current_set(SetData, sn.target).index)
              /\ (\A i \in 1..Len(SetData) : SetData[i].number # IntNum(sn.target))
                    => AllFrom(Len(SetData))

\* no candidate is numbered 16: the snapshot says set 16 and holds the
\* champions and traits of the last candidate, which are not those of the
\* first
C27_Witness ==
    /\ sn.outcome = "written"
    /\ sn.target = 16
    /\ Len(SetData) = 2
    /\ \A i \in 1..2 : SetData[i].number = IntNum(17)
    /\ SetData[1].champions # SetData[2].champions
    /\ SetData[1].traits # SetData[2].traits
    /\ SetData[1].items # SetData[2].items
    /\ RootList # <<>>
    /\ sn.snapshot.set_number = 16
    /\ AllFrom(2)
    /\ ~AllFrom(1)

\* the records of the root catalog, each under its identifier
RootCatalogRecords ==
    LET identified == {i \in 1..Len(RootList) : item_id(RootList[i]) # <<>>}
    IN  [k \in {item_id(RootList[i]) : i \in identified} |->
            item_record(RootList[CHOOSE i \in identified :
                                    item_id(RootList[i]) = k])]

\* C29: with a loaded catalog whose setData is empty or missing,
\* find_current_set returns None without raising, extract_champions and
\* extract_traits return empty maps, extract_items returns the records of
\* the root catalog, and the snapshot is still written.
C29_NoSetData ==
    (sn.outcome # "not called" /\ loaded(sn.static_data) /\ SetData = <<>>) =>
        /\ sn.outcome = "written"
        /\ find_current_set(SetData, sn.target) = Found(0, <<"no set data">>)
        /\ sn.snapshot.set_number = sn.target
        /\ sn.snapshot.champions = EmptyDict
        /\ sn.snapshot.traits = EmptyDict
        /\ sn.snapshot.items = RootCatalogRecords

\* the catalog has no setData key and two root items: the snapshot is
\* written with no champions, no traits and the two root items
C29_Witness ==
    /\ sn.outcome = "written"
    /\ sn.static_data.setData = <<>>
    /\ Len(RootList) = 2
    /\ sn.snapshot.champions = EmptyDict
    /\ sn.snapshot.traits = EmptyDict
    /\ DOMAIN sn.snapshot.items = {str(1), str(2)}
    /\ sn.snapshot.items[str(2)].name = "y"

\* an identifier in lower case
LowerCased(s) ==
    [i \in 1..Len(s) |->
        CASE s[i] = "A" -> "a"
          [] s[i] = "B" -> "b"
          [] OTHER -> s[i]]

\* the lower-cased identifiers of a list of entries, "" for an entry that
\* has none
ChampionIds(list) ==
    [i \in 1..Len(list) |-> LowerCased(get(list[i].characterName, <<>>))]
TraitIds(list) ==
    [i \in 1..Len(list) |-> LowerCased(get(list[i].name, <<>>))]

\* the last entry of the list with the lower-cased identifier k
LastWith(ids, k) ==
    CHOOSE i \in 1..Len(ids) :
        /\ ids[i] = k
        /\ \A j \in 1..Len(ids) : ids[j] = k => j <= i

\* C30: the maps of extract_champions and extract_traits have as keys
\* exactly the lower-cased identifiers (characterName, name) of the entries
\* of the selected candidate whose identifier is not empty; an entry whose
\* identifier is missing or empty gives no key and no error; of two entries
\* with the same lower-cased identifier the later one gives the record.
C30_LowerCasedKeys ==
    sn.outcome # "not called" =>
        LET champions == SetData[1].champions
            traits == SetData[1].traits
            cids == ChampionIds(champions)
            tids == TraitIds(traits)
        IN  /\ sn.outcome = "written"
            /\ DOMAIN sn.snapshot.champions = Range(cids) \ {<<>>}
            /\ \A k \in DOMAIN sn.snapshot.champions :
                  sn.snapshot.champions[k].name
                      = champions[LastWith(cids, k)].name[1]
            /\ DOMAIN sn.snapshot.traits = Range(tids) \ {<<>>}
            /\ \A k \in DOMAIN sn.snapshot.traits :
                  sn.snapshot.traits[k].display_name
                      = traits[LastWith(tids, k)].display_name[1]

\* of the champions "Ab", one without characterName and "aB", the first and
\* the last share the key "ab", which holds the record of the last
C30_Witness ==
    /\ sn.outcome = "written"
    /\ Len(SetData[1].champions) = 3
    /\ SetData[1].champions[1] = Champion(<<<<"A", "b">>>>, "x")
    /\ SetData[1].champions[2].characterName = <<>>
    /\ SetData[1].champions[3] = Champion(<<<<"a", "B">>>>, "y")
    /\ DOMAIN sn.snapshot.champions = {<<"a", "b">>}
    /\ sn.snapshot.champions[<<"a", "b">>].name = "y"

(***************************************************************************)
(* Claim about the inputs of build_training_dataframe (specification       *)
(* SpecBuild).                                                             *)
(***************************************************************************)
\* build_training_dataframe is called and returns
BuildCall == ~bd.built /\ bd'.built

\* self.match_data and its records are after the call what they were before
InputsKept ==
    BuildCall =>
        /\ Len(bd'.match_data) = Len(bd.match_data)
        /\ \A m \in 1..Len(bd.match_data) : bd'.match_data[m] = bd.match_data[m]
        /\ bd'.match_data = bd.match_data

\* C31: build_training_dataframe leaves its inputs unchanged: the match_data
\* collection of the pipeline and every match record in it are the same
\* after the call as before it, for every match_data, the empty one
\* included.
C31_InputsUnchanged == [][InputsKept]_vars

\* the dataframe was built from two matches with participants and traits
\* that are kept: rows were made, the two matches are still there
C31_Witness ==
    /\ bd.built
    /\ Len(bd.match_data) = 2
    /\ \A m \in 1..2 : Len(bd.match_data[m].participants) = 2
    /\ bd.match_data[1] # bd.match_data[2]
    /\ Len(bd.df) = 4
    /\ \E k \in 1..4 : bd.df[k].traits # <<>>
====
